---- MODULE Spec2Model ----
(***************************************************************************)
(* A model of the in-memory virtual file system of uigen                   *)
(* (src/lib/file-system.ts, held in src/unnamed/part_003), of the          *)
(* FileSystemContext that holds it in the browser                          *)
(* (src/lib/contexts/file-system-context.tsx) and of the sessions of       *)
(* src/lib/auth.ts.                                                        *)
(*                                                                         *)
(* A JavaScript string is a sequence of one-character strings, so that     *)
(* startsWith, endsWith, slice, lastIndexOf, split and the regular         *)
(* expressions of the source are computed and not assumed.  A file's       *)
(* content is a sequence of lexemes (see Size).  A FileNode object is an   *)
(* entry of a heap, named by a natural number: two maps that hold the same *)
(* number hold the same object.                                            *)
(***************************************************************************)
EXTENDS Integers, Sequences, FiniteSets, TLC

VARIABLES
  fs,              \* the VirtualFileSystem instance
  last,            \* the call that led to the state
  selectedFile,    \* FileSystemState.selectedFile of the FileSystemContext
  refreshTrigger,  \* FileSystemState.refreshTrigger
  cookie,          \* the auth-token cookie of the browser
  serializedFiles, \* the memoized snapshot of the ChatProvider, once mounted
  projects,        \* the Project table of the database
  pending          \* the chat request whose response is streaming, if any

vars ==
  <<fs, last, selectedFile, refreshTrigger, cookie, serializedFiles, projects,
    pending>>

\* The state outside the VirtualFileSystem instance.
context == <<selectedFile, refreshTrigger>>

\* The state of the server.
server == <<projects, pending>>

(***************************************************************************)
(* Bounds of the model.                                                    *)
(***************************************************************************)
\* The most entries the path index may hold after an operation.
MaxNodes == 3
\* The most lexemes a file may hold after an operation of Spec.
MaxTreeContent == 1
\* The longest input of the normalisation specification.
MaxLen == 4
\* The most lexemes a content may hold in the content specification.
MaxContent == 3
\* The most lexemes a file may hold after a callback of the context.
MaxContextContent == 2
\* The most refreshes the context counts.
MaxRefresh == 2

(***************************************************************************)
(* Program constants.                                                      *)
(***************************************************************************)
\* The depth of nested calls at which the engine raises RangeError (Maximum
\* call stack size exceeded): deeper than any tree the bounds admit.
MaxStack == MaxNodes + 1
ROOT_PATH == <<"/">>
PATH_SEPARATOR == "/"
DEFAULT_FILE_CONTENT == <<>>
MAX_FILE_SIZE == 1048576
MAX_PATH_LENGTH == 1000
ALLOWED_EXTENSIONS ==
  { <<".", "j", "s">>, <<".", "j", "s", "x">>, <<".", "t", "s">>,
    <<".", "t", "s", "x">>, <<".", "c", "s", "s">>,
    <<".", "j", "s", "o", "n">>, <<".", "h", "t", "m", "l">>,
    <<".", "m", "d">>, <<".", "t", "x", "t">> }

\* JavaScript's null and undefined as a value, as a FileNode reference and as
\* the cached snapshot; and "no exception".
Null == "null"
NoNode == -1
NoCache == <<>>
\* A value of type string | null: Some(v), or None for null.
Some(v) == <<v>>
None == <<>>
NoErr == "none"

(***************************************************************************)
(* String primitives.                                                      *)
(***************************************************************************)
StartsWith(s, p) == Len(s) >= Len(p) /\ SubSeq(s, 1, Len(p)) = p

EndsWith(s, p) ==
  Len(s) >= Len(p) /\ SubSeq(s, Len(s) - Len(p) + 1, Len(s)) = p

\* String.prototype.includes: sub occurs in s.
Includes(s, sub) ==
  \E i \in 0..(Len(s) - Len(sub)) : SubSeq(s, i + 1, i + Len(sub)) = sub

\* String.prototype.lastIndexOf for a one-character needle: 0-based, -1 if absent.
LastIndexOf(s, c) ==
  LET at == {i \in 1..Len(s) : s[i] = c}
  IN IF at = {} THEN -1 ELSE (CHOOSE i \in at : \A j \in at : j <= i) - 1

\* String.prototype.substring(from) with a 0-based index.
SubstringFrom(s, from) == SubSeq(s, from + 1, Len(s))

\* String.prototype.substring(0, to) with a 0-based exclusive end.
SubstringTo(s, to) == SubSeq(s, 1, to)

\* String.prototype.toLowerCase on the letters the model uses.
LowerChar(c) ==
  CASE c = "E" -> "e"
    [] c = "S" -> "s"
    [] c = "T" -> "t"
    [] c = "X" -> "x"
    [] OTHER -> c

ToLowerCase(s) == [i \in 1..Len(s) |-> LowerChar(s[i])]

\* path.replace(/\/+/g, "/"): every run of separators becomes one separator.
RECURSIVE CollapseSeparators(_)
CollapseSeparators(s) ==
  IF Len(s) <= 1 THEN s
  ELSE IF s[1] = PATH_SEPARATOR /\ s[2] = PATH_SEPARATOR
       THEN CollapseSeparators(Tail(s))
       ELSE <<s[1]>> \o CollapseSeparators(Tail(s))

\* path.split("/").filter(Boolean): the non-empty segments, in order.
RECURSIVE SplitParts(_, _)
SplitParts(s, cur) ==
  IF s = <<>> THEN (IF cur = <<>> THEN <<>> ELSE <<cur>>)
  ELSE IF Head(s) = PATH_SEPARATOR
       THEN (IF cur = <<>> THEN <<>> ELSE <<cur>>) \o SplitParts(Tail(s), <<>>)
       ELSE SplitParts(Tail(s), Append(cur, Head(s)))

\* path.length, where the one lexeme "a{999}" of a path stands for a run
\* of 999 characters "a".
RECURSIVE Length(_)
Length(s) ==
  IF s = <<>> THEN 0
  ELSE (IF Head(s) = "a{999}" THEN 999 ELSE 1) + Length(Tail(s))

\* The characters /[\x00-\x1f<>:"|?*]/ matches, among those TLA+ can write.
IllegalChars == {"\t", "\n", "\f", "\r", "<", ">", ":", "\"", "|", "?", "*"}

(***************************************************************************)
(* Paths.                                                                  *)
(***************************************************************************)
normalizePath(path) ==
  LET p1 == IF StartsWith(path, <<PATH_SEPARATOR>>) THEN path
            ELSE <<PATH_SEPARATOR>> \o path
      p2 == IF p1 # ROOT_PATH /\ EndsWith(p1, <<PATH_SEPARATOR>>)
            THEN SubSeq(p1, 1, Len(p1) - 1) ELSE p1
  IN CollapseSeparators(p2)

\* sanitizePath without the test for "~".
sanitizePathNoTilde(path) ==
  LET normalized == normalizePath(path)
  IN IF Includes(normalized, <<".", ".">>)
     THEN [err |-> "InvalidPath", ret |-> normalized]
     ELSE IF \E i \in 1..Len(normalized) : normalized[i] \in IllegalChars
     THEN [err |-> "InvalidPath", ret |-> normalized]
     ELSE IF Length(normalized) > MAX_PATH_LENGTH
     THEN [err |-> "InvalidPath", ret |-> normalized]
     ELSE [err |-> NoErr, ret |-> normalized]

\* sanitizePath returns the normalized path (ret) or throws (err).
sanitizePath(path) ==
  LET normalized == normalizePath(path)
  IN IF Includes(normalized, <<".", ".">>) \/ Includes(normalized, <<"~">>)
     THEN [err |-> "InvalidPath", ret |-> normalized]
     ELSE IF \E i \in 1..Len(normalized) : normalized[i] \in IllegalChars
     THEN [err |-> "InvalidPath", ret |-> normalized]
     ELSE IF Length(normalized) > MAX_PATH_LENGTH
     THEN [err |-> "InvalidPath", ret |-> normalized]
     ELSE [err |-> NoErr, ret |-> normalized]

isFilePath(path) ==
  Includes(path, <<".">>) /\ ~EndsWith(path, <<PATH_SEPARATOR>>)

getParentPath(path) ==
  LET normalized == normalizePath(path)
      lastSlashIndex == LastIndexOf(normalized, PATH_SEPARATOR)
  IN IF normalized = ROOT_PATH THEN ROOT_PATH
     ELSE IF lastSlashIndex <= 0 THEN ROOT_PATH
     ELSE SubstringTo(normalized, lastSlashIndex)

getFileName(path) ==
  LET normalized == normalizePath(path)
      lastSlashIndex == LastIndexOf(normalized, PATH_SEPARATOR)
  IN IF normalized = ROOT_PATH THEN ROOT_PATH
     ELSE IF lastSlashIndex = -1 THEN normalized
     ELSE SubstringFrom(normalized, lastSlashIndex + 1)

(***************************************************************************)
(* Contents.  A content is a sequence of lexemes; a lexeme stands for the  *)
(* run of characters Size gives it: a letter, a line break, the opening    *)
(* tag "<script>", the closing tag "</script>", and "MiB", a run of        *)
(* MAX_FILE_SIZE letters that occur in no other lexeme.                    *)
(***************************************************************************)
LexemeSize(x) ==
  CASE x = "<script>" -> 8
    [] x = "<SCRIPT>" -> 8
    [] x = "</script>" -> 9
    [] x = "MiB" -> MAX_FILE_SIZE
    [] OTHER -> 1

\* content.length
RECURSIVE Size(_)
Size(content) ==
  IF content = <<>> THEN 0 ELSE LexemeSize(Head(content)) + Size(Tail(content))

\* /<script\b[^<]*(?:(?!<\/script>)<[^<]*)*<\/script>/gi.test(content): an
\* opening tag, in either case, with a closing tag somewhere after it.
HasScriptBlock(content) ==
  \E i, j \in 1..Len(content) :
    /\ i < j
    /\ content[i] \in {"<script>", "<SCRIPT>"}
    /\ content[j] = "</script>"

\* A faulty validateFileContent, without the test for a script block: with
\* it in place of validateFileContent, C6 fails.
validateFileContentNoScript(path, content) ==
  LET extension == SubstringFrom(ToLowerCase(path), LastIndexOf(path, "."))
  IN IF /\ Includes(path, <<".">>)
        /\ extension # <<>>
        /\ extension \notin ALLOWED_EXTENSIONS
     THEN "FileType"
     ELSE IF Size(content) > MAX_FILE_SIZE THEN "FileSize"
     ELSE NoErr

\* validateFileContent returns or throws: the result names the throw.
validateFileContent(path, content) ==
  LET extension == SubstringFrom(ToLowerCase(path), LastIndexOf(path, "."))
  IN IF /\ Includes(path, <<".">>)
        /\ extension # <<>>
        /\ extension \notin ALLOWED_EXTENSIONS
     THEN "FileType"
     ELSE IF Size(content) > MAX_FILE_SIZE THEN "FileSize"
     ELSE IF HasScriptBlock(content) THEN "Script"
     ELSE NoErr

(***************************************************************************)
(* Object.keys(data).sort(): the keys in ascending order of UTF-16 code    *)
(* units.                                                                  *)
(***************************************************************************)
CharCode(c) ==
  CASE c = "\t" -> 9 [] c = "\n" -> 10 [] c = "." -> 46 [] c = "/" -> 47
    [] c = ":" -> 58 [] c = "<" -> 60 [] c = ">" -> 62
    [] c = "E" -> 69 [] c = "S" -> 83 [] c = "T" -> 84 [] c = "X" -> 88
    [] c = "a" -> 97 [] c = "b" -> 98 [] c = "c" -> 99 [] c = "d" -> 100
    [] c = "e" -> 101 [] c = "j" -> 106 [] c = "s" -> 115 [] c = "t" -> 116
    [] c = "x" -> 120 [] c = "~" -> 126
    [] OTHER -> 127

RECURSIVE StrLess(_, _)
StrLess(a, b) ==
  IF b = <<>> THEN FALSE
  ELSE IF a = <<>> THEN TRUE
  ELSE IF CharCode(Head(a)) # CharCode(Head(b))
       THEN CharCode(Head(a)) < CharCode(Head(b))
       ELSE StrLess(Tail(a), Tail(b))

RECURSIVE SortedKeys(_)
SortedKeys(keys) ==
  IF keys = {} THEN <<>>
  ELSE LET least == CHOOSE k \in keys : \A o \in keys \ {k} : StrLess(k, o)
       IN <<least>> \o SortedKeys(keys \ {least})

(***************************************************************************)
(* The heap and the instance.  A state s of a VirtualFileSystem is         *)
(*   s.nodes            the FileNode objects, by object number            *)
(*   s.files            the path index: path -> object number             *)
(*   s.root             the object number of this.root                    *)
(*   s.serializedCache  Null or the cached snapshot                       *)
(*   s.cacheVersion     the index size the snapshot was taken at          *)
(* A children Map is the sequence of its entries in insertion order.       *)
(***************************************************************************)
Range(f) == {f[x] : x \in DOMAIN f}

\* A directory has no content and a file no children: the field is there,
\* empty, and is read only after the type.
DirNode(name, path) ==
  [type |-> "directory", name |-> name, path |-> path,
   content |-> <<>>, children |-> <<>>]

FileNode(name, path, content) ==
  [type |-> "file", name |-> name, path |-> path,
   content |-> content, children |-> <<>>]

\* Map.prototype.set: an existing key keeps its place, a new key goes last.
MapSet(m, name, id) ==
  IF \E i \in 1..Len(m) : m[i].name = name
  THEN [i \in 1..Len(m) |->
          IF m[i].name = name THEN [name |-> name, id |-> id] ELSE m[i]]
  ELSE Append(m, [name |-> name, id |-> id])

\* Map.prototype.delete
MapDelete(m, name) == SelectSeq(m, LAMBDA e : e.name # name)

\* new VirtualFileSystem()
NewFS ==
  [nodes |-> (0 :> DirNode(ROOT_PATH, ROOT_PATH)),
   files |-> (ROOT_PATH :> 0),
   root |-> 0,
   serializedCache |-> NoCache,
   cacheVersion |-> 0]

\* The number of the next object created: the least one not in use.
NewId(s) ==
  CHOOSE n \in 0..Cardinality(DOMAIN s.nodes) :
    /\ n \notin DOMAIN s.nodes
    /\ \A m \in 0..(n - 1) : m \in DOMAIN s.nodes

\* The objects the instance can still reach, each once, the root first:
\* the root's subtree in the order of the children Maps, then what only the
\* path index holds.  The others are garbage.
RECURSIVE Visit(_, _, _)
Visit(s, todo, seen) ==
  IF todo = <<>> THEN seen
  ELSE LET n == Head(todo)
           kids == [i \in 1..Len(s.nodes[n].children) |-> s.nodes[n].children[i].id]
       IN IF \E i \in 1..Len(seen) : seen[i] = n
          THEN Visit(s, Tail(todo), seen)
          ELSE Visit(s, kids \o Tail(todo), Append(seen, n))

Live(s) ==
  LET keys == SortedKeys(DOMAIN s.files)
  IN Visit(s, <<s.root>> \o [i \in 1..Len(keys) |-> s.files[keys[i]]], <<>>)

\* Garbage collection: the live objects, numbered in the order of Live (an
\* object's number is only its name, so the renumbering changes nothing the
\* program can observe).
Number(order, n) == (CHOOSE i \in 1..Len(order) : order[i] = n) - 1

Renumber(s, order) ==
  [s EXCEPT
     !.nodes = [k \in 0..(Len(order) - 1) |->
                  [s.nodes[order[k + 1]] EXCEPT
                     !.children = [i \in 1..Len(@) |->
                                     [name |-> @[i].name,
                                      id |-> Number(order, @[i].id)]]]],
     !.files = [p \in DOMAIN s.files |-> Number(order, s.files[p])],
     !.root = Number(order, s.root)]

Collect(s) == Renumber(s, Live(s))

\* What a call gives back: the state it leaves, its value, and its throw.
Ret(s, v) == [st |-> s, ret |-> v, err |-> NoErr]
Threw(s, e) == [st |-> s, ret |-> Null, err |-> e]

\* const name = value; the rest of the body.
Let(value, Body(_)) == Body(value)

\* const name = f(...), where f is pure and may throw: an exception leaves
\* the body of the caller, whose state is then s.
Try(s, r, Body(_)) == IF r.err # NoErr THEN Threw(s, r.err) ELSE Body(r.ret)

\* A call of a method that may change the state or throw: an exception
\* leaves the body of the caller in the state the method left.
Do(r, Body(_)) == IF r.err # NoErr THEN Threw(r.st, r.err) ELSE Body(r)

\* Map.prototype.get on the path index.
FilesGet(s, path) == IF path \in DOMAIN s.files THEN s.files[path] ELSE NoNode

\* Map.prototype.delete on the path index.
FilesDelete(files, path) == [p \in DOMAIN files \ {path} |-> files[p]]

invalidateCache(s) == [s EXCEPT !.serializedCache = NoCache]

getParentNode(s, path) == FilesGet(s, getParentPath(path))

exists(s, path) ==
  Try(s, sanitizePath(path), LAMBDA normalized :
    Ret(s, normalized \in DOMAIN s.files))

getNode(s, path) ==
  Try(s, sanitizePath(path), LAMBDA normalized :
    Ret(s, FilesGet(s, normalized)))

\* Array.from(dir.children.values()): the children in the order of the Map.
listDirectory(s, path) ==
  Try(s, sanitizePath(path), LAMBDA normalized :
    Let(FilesGet(s, normalized), LAMBDA dir :
      IF dir = NoNode THEN Ret(s, None)
      ELSE IF s.nodes[dir].type # "directory" THEN Ret(s, None)
      ELSE Ret(s, Some([i \in 1..Len(s.nodes[dir].children) |->
                          s.nodes[dir].children[i].id]))))

\* this.files.set(path, node); parent.children.set(node.name, node);
\* this.invalidateCache(); return node
LinkNode(s, parent, id, node) ==
  Ret(invalidateCache(
        [s EXCEPT
           !.nodes = (id :> node) @@
                     [s.nodes EXCEPT ![parent].children = MapSet(@, node.name, id)],
           !.files = (node.path :> id) @@ s.files]),
      id)

createDirectory(s, path) ==
  Try(s, sanitizePath(path), LAMBDA normalized :
    IF normalized \in DOMAIN s.files THEN Ret(s, NoNode)
    ELSE Let(getParentNode(s, normalized), LAMBDA parent :
      IF parent = NoNode THEN Ret(s, NoNode)
      ELSE IF s.nodes[parent].type # "directory" THEN Ret(s, NoNode)
      ELSE LinkNode(s, parent, NewId(s),
                    DirNode(getFileName(normalized), normalized))))

\* The loop that creates the missing ancestors: for the first n of parts,
\* currentPath += "/" + part; if (!exists(currentPath)) createDirectory(..).
RECURSIVE createParents(_, _, _, _)
createParents(s, parts, n, currentPath) ==
  IF n <= 0 THEN Ret(s, Null)
  ELSE Let(currentPath \o <<PATH_SEPARATOR>> \o Head(parts), LAMBDA cur :
    Do(exists(s, cur), LAMBDA ex :
      Do(IF ex.ret THEN Ret(s, NoNode) ELSE createDirectory(s, cur), LAMBDA made :
        createParents(made.st, Tail(parts), n - 1, cur))))

createFile(s, path, content) ==
  Try(s, sanitizePath(path), LAMBDA normalized :
    Let(IF content # DEFAULT_FILE_CONTENT \/ isFilePath(normalized)
        THEN validateFileContent(normalized, content) ELSE NoErr, LAMBDA bad :
      IF bad # NoErr THEN Threw(s, bad)
      ELSE IF normalized \in DOMAIN s.files THEN Ret(s, NoNode)
      ELSE Let(SplitParts(normalized, <<>>), LAMBDA parts :
        Do(createParents(s, parts, Len(parts) - 1, <<>>), LAMBDA dirs :
          Let(getParentNode(dirs.st, normalized), LAMBDA parent :
            IF parent = NoNode THEN Ret(dirs.st, NoNode)
            ELSE IF dirs.st.nodes[parent].type # "directory"
            THEN Ret(dirs.st, NoNode)
            ELSE LinkNode(dirs.st, parent, NewId(dirs.st),
                          FileNode(getFileName(normalized), normalized,
                                   content)))))))

readFile(s, path) ==
  Try(s, sanitizePath(path), LAMBDA normalized :
    Let(FilesGet(s, normalized), LAMBDA file :
      IF file = NoNode THEN Ret(s, None)
      ELSE IF s.nodes[file].type # "file" THEN Ret(s, None)
      ELSE Ret(s, Some(s.nodes[file].content))))

updateFile(s, path, content) ==
  Try(s, sanitizePath(path), LAMBDA normalized :
    Let(FilesGet(s, normalized), LAMBDA file :
      IF file = NoNode THEN Ret(s, FALSE)
      ELSE IF s.nodes[file].type # "file" THEN Ret(s, FALSE)
      ELSE Let(validateFileContent(normalized, content), LAMBDA bad :
        IF bad # NoErr THEN Threw(s, bad)
        ELSE Ret(invalidateCache([s EXCEPT !.nodes[file].content = content]),
                 TRUE))))

\* deleteFile(path) called at nesting depth `depth`.  The for-of loop over
\* file.children is live: an entry removed before the loop reaches it is
\* not visited.
RECURSIVE deleteFile(_, _, _)
RECURSIVE deleteChildren(_, _, _, _)
deleteChildren(s, dir, entries, depth) ==
  IF entries = <<>> THEN Ret(s, Null)
  ELSE Do(IF \E i \in 1..Len(s.nodes[dir].children) :
               s.nodes[dir].children[i] = Head(entries)
          THEN deleteFile(s, s.nodes[Head(entries).id].path, depth + 1)
          ELSE Ret(s, FALSE), LAMBDA r :
         deleteChildren(r.st, dir, Tail(entries), depth))

deleteFile(s, path, depth) ==
  IF depth > MaxStack THEN Threw(s, "RangeError")
  ELSE Try(s, sanitizePath(path), LAMBDA normalized :
    Let(FilesGet(s, normalized), LAMBDA file :
      IF file = NoNode \/ normalized = ROOT_PATH THEN Ret(s, FALSE)
      ELSE Let(getParentNode(s, normalized), LAMBDA parent :
        IF parent = NoNode THEN Ret(s, FALSE)
        ELSE IF s.nodes[parent].type # "directory" THEN Ret(s, FALSE)
        ELSE Do(IF s.nodes[file].type = "directory"
                THEN deleteChildren(s, file, s.nodes[file].children, depth)
                ELSE Ret(s, Null), LAMBDA kids :
          Ret(invalidateCache(
                [kids.st EXCEPT
                   !.nodes[parent].children =
                      MapDelete(@, kids.st.nodes[file].name),
                   !.files = FilesDelete(@, normalized)]),
              TRUE)))))

\* updateChildrenPaths(node) called at nesting depth `depth`.
RECURSIVE updateChildrenPaths(_, _, _)
RECURSIVE updateChildrenLoop(_, _, _, _)
updateChildrenLoop(s, node, entries, depth) ==
  IF entries = <<>> THEN Ret(s, Null)
  ELSE Let(Head(entries).id, LAMBDA child :
    Let(s.nodes[node].path \o <<"/">> \o s.nodes[child].name, LAMBDA newChildPath :
      Let([s EXCEPT
             !.nodes[child].path = newChildPath,
             !.files = (newChildPath :> child) @@
                       FilesDelete(@, s.nodes[child].path)], LAMBDA t :
        Do(IF t.nodes[child].type = "directory"
           THEN updateChildrenPaths(t, child, depth + 1)
           ELSE Ret(t, Null), LAMBDA r :
          updateChildrenLoop(r.st, node, Tail(entries), depth)))))

updateChildrenPaths(s, node, depth) ==
  IF depth > MaxStack THEN Threw(s, "RangeError")
  ELSE IF s.nodes[node].type = "directory"
  THEN updateChildrenLoop(s, node, s.nodes[node].children, depth)
  ELSE Ret(s, Null)

\* rename from "Remove from old parent" on: t is the state once the
\* destination's ancestors exist.
MoveNode(t, normalizedOld, normalizedNew, sourceNode, oldParent, newParent) ==
  Let(getFileName(normalizedNew), LAMBDA newName :
    Let([t EXCEPT !.nodes[oldParent].children =
                     MapDelete(@, t.nodes[sourceNode].name)], LAMBDA t1 :
      Let([t1 EXCEPT !.nodes[sourceNode].name = newName,
                     !.nodes[sourceNode].path = normalizedNew], LAMBDA t2 :
        Let([t2 EXCEPT !.nodes[newParent].children =
                          MapSet(@, newName, sourceNode)], LAMBDA t3 :
          Let([t3 EXCEPT !.files = (normalizedNew :> sourceNode) @@
                                   FilesDelete(@, normalizedOld)], LAMBDA t4 :
            Do(IF t4.nodes[sourceNode].type = "directory"
               THEN updateChildrenPaths(t4, sourceNode, 1)
               ELSE Ret(t4, Null), LAMBDA upd :
              Ret(invalidateCache(upd.st), TRUE)))))))

\* rename once neither path is the root.
renameNode(s, normalizedOld, normalizedNew) ==
  Let(FilesGet(s, normalizedOld), LAMBDA sourceNode :
    IF sourceNode = NoNode THEN Ret(s, FALSE)
    ELSE IF normalizedNew \in DOMAIN s.files THEN Ret(s, FALSE)
    ELSE Let(getParentNode(s, normalizedOld), LAMBDA oldParent :
      IF oldParent = NoNode THEN Ret(s, FALSE)
      ELSE IF s.nodes[oldParent].type # "directory" THEN Ret(s, FALSE)
      ELSE Let(getParentPath(normalizedNew), LAMBDA newParentPath :
        Do(exists(s, newParentPath), LAMBDA ex :
          Let(SplitParts(newParentPath, <<>>), LAMBDA parts :
            Do(IF ex.ret THEN Ret(s, Null)
               ELSE createParents(s, parts, Len(parts), <<>>), LAMBDA dirs :
              Let(getParentNode(dirs.st, normalizedNew), LAMBDA newParent :
                IF newParent = NoNode THEN Ret(dirs.st, FALSE)
                ELSE IF dirs.st.nodes[newParent].type # "directory"
                THEN Ret(dirs.st, FALSE)
                ELSE MoveNode(dirs.st, normalizedOld, normalizedNew,
                              sourceNode, oldParent, newParent))))))))

\* A faulty rename, without the test for the root: with it in place of
\* rename, C10 fails.
renameAnyPath(s, oldPath, newPath) ==
  Try(s, sanitizePath(oldPath), LAMBDA normalizedOld :
    Try(s, sanitizePath(newPath), LAMBDA normalizedNew :
      renameNode(s, normalizedOld, normalizedNew)))

rename(s, oldPath, newPath) ==
  Try(s, sanitizePath(oldPath), LAMBDA normalizedOld :
    Try(s, sanitizePath(newPath), LAMBDA normalizedNew :
      IF normalizedOld = ROOT_PATH \/ normalizedNew = ROOT_PATH
      THEN Ret(s, FALSE)
      ELSE renameNode(s, normalizedOld, normalizedNew)))

\* JSON.stringify of a snapshot and JSON.parse of the text: every field of
\* a record is a string, so none is dropped and the value comes back.
JSONStringify(value) == <<value>>
JSONParse(text) == text[1]

computeSerialize(s) ==
  [path \in DOMAIN s.files |->
     LET node == s.nodes[s.files[path]]
     IN IF node.type = "directory"
        THEN [type |-> node.type, name |-> node.name, path |-> node.path]
        ELSE [type |-> node.type, name |-> node.name, path |-> node.path,
              content |-> node.content]]

serialize(s) ==
  IF s.serializedCache # NoCache /\ s.cacheVersion = Cardinality(DOMAIN s.files)
  THEN Ret(s, JSONParse(s.serializedCache))
  ELSE Let(computeSerialize(s), LAMBDA result :
    Ret([s EXCEPT !.serializedCache = JSONStringify(result),
                  !.cacheVersion = Cardinality(DOMAIN s.files)],
        result))

\* A reset that replaces the root but does not clear the path index.
resetKeepingIndex(s) ==
  Ret(invalidateCache([s EXCEPT !.nodes[s.root] = DirNode(ROOT_PATH, ROOT_PATH)]),
      Null)

reset(s) ==
  Ret(invalidateCache(
        [s EXCEPT !.nodes = (0 :> DirNode(ROOT_PATH, ROOT_PATH)),
                  !.files = (ROOT_PATH :> 0),
                  !.root = 0]),
      Null)

\* this.files.clear(); this.root.children?.clear(); this.files.set("/", root)
clearToRoot(s) ==
  Collect([s EXCEPT !.files = (ROOT_PATH :> s.root),
                    !.nodes[s.root].children = <<>>])

\* The body of deserialize's loop for the sorted paths that remain.
RECURSIVE deserializeLoop(_, _, _)
deserializeLoop(s, data, paths) ==
  IF paths = <<>> THEN Ret(s, Null)
  ELSE Let(Head(paths), LAMBDA path :
    Let(SplitParts(path, <<>>), LAMBDA parts :
      Do(createParents(s, parts, Len(parts) - 1, <<>>), LAMBDA dirs :
        Do(createFile(dirs.st, path, data[path]), LAMBDA made :
          deserializeLoop(made.st, data, Tail(paths))))))

deserialize(s, data) ==
  deserializeLoop(clearToRoot(s), data, SortedKeys(DOMAIN data))

\* The body of deserializeFromNodes's loop for the sorted paths that remain.
RECURSIVE deserializeFromNodesLoop(_, _, _)
deserializeFromNodesLoop(s, data, paths) ==
  IF paths = <<>> THEN Ret(s, Null)
  ELSE Let(Head(paths), LAMBDA path :
    IF path = ROOT_PATH THEN deserializeFromNodesLoop(s, data, Tail(paths))
    ELSE Let(SplitParts(path, <<>>), LAMBDA parts :
      Do(createParents(s, parts, Len(parts) - 1, <<>>), LAMBDA dirs :
        Do(IF data[path].type = "file"
           THEN createFile(dirs.st, path, data[path].content)
           ELSE createDirectory(dirs.st, path), LAMBDA made :
          deserializeFromNodesLoop(made.st, data, Tail(paths))))))

deserializeFromNodes(s, data) ==
  deserializeFromNodesLoop(clearToRoot(s), data, SortedKeys(DOMAIN data))

(***************************************************************************)
(* The text-editor commands.  A returned message is <<prefix, text, arg>>: *)
(* prefix is "Error: " or empty.                                           *)
(***************************************************************************)
Message(text, arg) == <<"", text, arg>>
ErrorMessage(text, arg) == <<"Error: ", text, arg>>

createFileWithParents(s, path, content) ==
  Do(exists(s, path), LAMBDA ex :
    IF ex.ret THEN Ret(s, ErrorMessage("File already exists: ", path))
    ELSE Let(SplitParts(path, <<>>), LAMBDA parts :
      Do(createParents(s, parts, Len(parts) - 1, <<>>), LAMBDA dirs :
        Do(createFile(dirs.st, path, content), LAMBDA made :
          Ret(made.st, Message("File created: ", path))))))

\* content.match(new RegExp(escaped oldStr, "g")).length: the occurrences of
\* the literal oldStr found left to right, each search resuming after the
\* last match.
RECURSIVE CountMatches(_, _)
CountMatches(content, oldStr) ==
  IF Len(content) < Len(oldStr) THEN 0
  ELSE IF StartsWith(content, oldStr)
       THEN 1 + CountMatches(SubSeq(content, Len(oldStr) + 1, Len(content)), oldStr)
       ELSE CountMatches(Tail(content), oldStr)

\* content.replace(oldStr, newStr) with a string pattern: the first
\* occurrence alone is replaced.
RECURSIVE ReplaceFirst(_, _, _)
ReplaceFirst(content, oldStr, newStr) ==
  IF Len(content) < Len(oldStr) THEN content
  ELSE IF StartsWith(content, oldStr)
       THEN newStr \o SubSeq(content, Len(oldStr) + 1, Len(content))
       ELSE <<Head(content)>> \o ReplaceFirst(Tail(content), oldStr, newStr)

\* content.split(oldStr).join(newStr)
RECURSIVE SplitJoin(_, _, _)
SplitJoin(content, oldStr, newStr) ==
  IF Len(content) < Len(oldStr) THEN content
  ELSE IF StartsWith(content, oldStr)
       THEN newStr \o
            SplitJoin(SubSeq(content, Len(oldStr) + 1, Len(content)), oldStr, newStr)
       ELSE <<Head(content)>> \o SplitJoin(Tail(content), oldStr, newStr)

\* this.readFile(path) || ""
ReadOrEmpty(read) == IF read.ret = None THEN DEFAULT_FILE_CONTENT ELSE read.ret[1]

replaceInFile(s, path, oldStr, newStr) ==
  Do(getNode(s, path), LAMBDA got :
    IF got.ret = NoNode THEN Ret(s, ErrorMessage("File not found: ", path))
    ELSE IF s.nodes[got.ret].type # "file"
    THEN Ret(s, ErrorMessage("Cannot edit a directory: ", path))
    ELSE Do(readFile(s, path), LAMBDA read :
      Let(ReadOrEmpty(read), LAMBDA content :
        IF oldStr = <<>> \/ ~Includes(content, oldStr)
        THEN Ret(s, ErrorMessage("String not found in file: ", oldStr))
        ELSE Let(CountMatches(content, oldStr), LAMBDA occurrences :
          Do(updateFile(s, path, SplitJoin(content, oldStr, newStr)), LAMBDA upd :
            Ret(upd.st, Message("Replaced occurrence(s): ", occurrences)))))))

\* content.split("\n")
RECURSIVE SplitLines(_, _)
SplitLines(content, cur) ==
  IF content = <<>> THEN <<cur>>
  ELSE IF Head(content) = "\n"
       THEN <<cur>> \o SplitLines(Tail(content), <<>>)
       ELSE SplitLines(Tail(content), Append(cur, Head(content)))

\* lines.join("\n")
RECURSIVE JoinLines(_)
JoinLines(lines) ==
  IF lines = <<>> THEN <<>>
  ELSE IF Len(lines) = 1 THEN lines[1]
  ELSE lines[1] \o <<"\n">> \o JoinLines(Tail(lines))

\* lines.splice(insertLine + 1, 0, text): the text after the line, the
\* last place being the end of the array.
SpliceAfter(lines, insertLine, text) ==
  IF insertLine >= Len(lines) THEN lines \o <<text>>
  ELSE SubSeq(lines, 1, insertLine + 1) \o <<text>> \o
       SubSeq(lines, insertLine + 2, Len(lines))

\* lines.splice(insertLine, 0, text)
Splice(lines, insertLine, text) ==
  SubSeq(lines, 1, insertLine) \o <<text>> \o
  SubSeq(lines, insertLine + 1, Len(lines))

\* insertLine is Some(k) for the number k and None for undefined.
insertInFile(s, path, insertLine, text) ==
  Do(getNode(s, path), LAMBDA got :
    IF got.ret = NoNode THEN Ret(s, ErrorMessage("File not found: ", path))
    ELSE IF s.nodes[got.ret].type # "file"
    THEN Ret(s, ErrorMessage("Cannot edit a directory: ", path))
    ELSE Do(readFile(s, path), LAMBDA read :
      Let(SplitLines(ReadOrEmpty(read), <<>>), LAMBDA lines :
        IF insertLine = None
        THEN Ret(s, ErrorMessage("Invalid line number: ", insertLine))
        ELSE IF insertLine[1] < 0 \/ insertLine[1] > Len(lines)
        THEN Ret(s, ErrorMessage("Invalid line number: ", insertLine))
        ELSE Do(updateFile(s, path,
                           JoinLines(Splice(lines, insertLine[1], text))),
                LAMBDA upd :
          Ret(upd.st, Message("Text inserted at line: ", insertLine))))))

\* children.sort((a, b) => a.name.localeCompare(b.name)) rendered as
\* "[DIR] name" or "[FILE] name": on the names of the model (lower-case
\* letters and ".") localeCompare orders as the code units do.
RECURSIVE SortedListing(_, _)
SortedListing(s, children) ==
  IF children = {} THEN <<>>
  ELSE LET first == CHOOSE c \in children :
                      \A o \in children \ {c} :
                        ~StrLess(s.nodes[o].name, s.nodes[c].name)
       IN <<<<IF s.nodes[first].type = "directory" THEN "[DIR]" ELSE "[FILE]",
              s.nodes[first].name>>>>
          \o SortedListing(s, children \ {first})

Max(a, b) == IF a >= b THEN a ELSE b
Min(a, b) == IF a <= b THEN a ELSE b

\* lines.slice(from, to) with from >= 0: a negative to counts from the end.
Slice(lines, from, to) ==
  SubSeq(lines, from + 1,
         IF to < 0 THEN Max(0, Len(lines) + to) ELSE Min(Len(lines), to))

\* viewedLines.map((line, index) => `${startLine + index}\t${line}`)
Numbered(lines, startLine) ==
  [i \in 1..Len(lines) |-> <<startLine + i - 1, lines[i]>>]

\* viewFile(path, viewRange): viewRange is None or Some(<<start, end>>).  A
\* listing or a view is returned as its lines, which "\n" joins: no line is
\* the empty string "".
viewFile(s, path, viewRange) ==
  Do(getNode(s, path), LAMBDA got :
    IF got.ret = NoNode THEN Ret(s, Message("File not found: ", path))
    ELSE IF s.nodes[got.ret].type = "directory"
    THEN Do(listDirectory(s, path), LAMBDA children :
      IF children.ret = None \/ children.ret = Some(<<>>)
      THEN Ret(s, Message("(empty directory)", <<>>))
      ELSE Ret(s, Message("listing",
                          SortedListing(s, Range(children.ret[1])))))
    ELSE Let(SplitLines(s.nodes[got.ret].content, <<>>), LAMBDA lines :
      IF viewRange # None
      THEN Let(Max(1, viewRange[1][1]), LAMBDA startLine :
        Let(IF viewRange[1][2] = -1 THEN Len(lines)
            ELSE Min(Len(lines), viewRange[1][2]), LAMBDA endLine :
          Ret(s, Message("lines",
                         Numbered(Slice(lines, startLine - 1, endLine),
                                  startLine)))))
      ELSE IF Numbered(lines, 1) = <<>>
      THEN Ret(s, Message("(empty file)", <<>>))
      ELSE Ret(s, Message("lines", Numbered(lines, 1)))))

(***************************************************************************)
(* The inputs of the operations.  A specification draws the arguments of   *)
(* the calls from a record I of finite sets: I.paths, I.contents, I.data   *)
(* (deserialize), I.nodeData (deserializeFromNodes), I.replaces (oldStr,   *)
(* newStr), I.inserts (insertLine, text); I.maxContent bounds the lexemes  *)
(* of a stored content.                                                    *)
(***************************************************************************)
RootRecord == [type |-> "directory", name |-> ROOT_PATH, path |-> ROOT_PATH]

TreeInputs ==
  [paths |->
     { <<"/">>,                                \* "/"
       <<"/", "a">>,                           \* "/a"
       <<"/", "a", "/", "/">>,                 \* "/a//"
       <<"/", "a", "/", "b">>,                 \* "/a/b"
       <<"/", "b">> },                         \* "/b"
   contents |-> { <<>>, <<"x">> },
   data |->
     { <<>>,
       (<<"/", "a", "/", "b">> :> <<"x">>),
       (<<"/", "b">> :> <<>>) @@ (<<"/", "a", "/", "/">> :> <<"x">>) },
   nodeData |->
     { (ROOT_PATH :> RootRecord),
       (ROOT_PATH :> RootRecord)
         @@ (<<"/", "a">> :>
               [type |-> "directory", name |-> <<"a">>, path |-> <<"/", "a">>])
         @@ (<<"/", "b">> :>
               [type |-> "file", name |-> <<"b">>, path |-> <<"/", "b">>,
                content |-> <<"x">>]) },
   replaces |-> { <<<<"x">>, <<>>>>, <<<<>>, <<"x">>>> },
   inserts |-> { <<Some(0), <<>>>>, <<Some(2), <<"x">>>> },
   maxContent |-> MaxTreeContent]

\* An entry of a snapshot.
DirRecord(name, path) == [type |-> "directory", name |-> name, path |-> path]
FileRecord(name, path, content) ==
  [type |-> "file", name |-> name, path |-> path, content |-> content]

\* Files with extensions, allowed and not.
ExtInputs ==
  [paths |->
     { <<"/", "a", ".", "t", "s">>,            \* "/a.ts"
       <<"/", "a", ".", "e", "x", "e">>,       \* "/a.exe"
       <<"/", "b">> },                         \* "/b"
   contents |-> { <<>>, <<"x">> },
   data |->
     { (<<"/", "a", ".", "t", "s">> :> <<"x">>),
       (<<"/", "b">> :> <<>>) @@ (<<"/", "a", ".", "e", "x", "e">> :> <<"x">>) },
   nodeData |->
     { (ROOT_PATH :> RootRecord)
         @@ (<<"/", "a", ".", "e", "x", "e">> :>
               DirRecord(<<"a", ".", "e", "x", "e">>,
                         <<"/", "a", ".", "e", "x", "e">>)),
       (ROOT_PATH :> RootRecord)
         @@ (<<"/", "a", ".", "E", "X", "E">> :>
               FileRecord(<<"a", ".", "E", "X", "E">>,
                          <<"/", "a", ".", "E", "X", "E">>, <<>>)) },
   replaces |-> { <<<<"x">>, <<>>>> },
   inserts |-> { <<Some(0), <<>>>> },
   maxContent |-> MaxTreeContent]

\* Contents at the limits of the content policy.
ContentInputs ==
  [paths |->
     { <<"/", "a", ".", "t", "s">>,            \* "/a.ts"
       <<"/", "b">> },                         \* "/b"
   contents |->
     { <<>>, <<"x">>, <<"<script>">>, <<"MiB">>,
       <<"<script>", "</script>">>, <<"MiB", "x">> },
   data |->
     { (<<"/", "a", ".", "t", "s">> :> <<"<SCRIPT>", "x", "</script>">>),
       (<<"/", "b">> :> <<"</script>", "<script>">>),
       (<<"/", "b">> :> <<"x", "MiB">>) },
   nodeData |->
     { (ROOT_PATH :> RootRecord)
         @@ (<<"/", "b">> :> FileRecord(<<"b">>, <<"/", "b">>, <<"MiB">>)),
       (ROOT_PATH :> RootRecord)
         @@ (<<"/", "b">> :>
               FileRecord(<<"b">>, <<"/", "b">>, <<"<script>", "</script>">>)) },
   replaces |-> { <<<<"x">>, <<"</script>">>>>, <<<<"x">>, <<"MiB">>>> },
   inserts |-> { <<Some(1), <<"</script>">>>>, <<Some(1), <<"x">>>> },
   maxContent |-> MaxContent]

\* A directory and a place inside it, with serialize() between the calls.
CacheInputs ==
  [paths |->
     { <<"/", "a">>,                           \* "/a"
       <<"/", "a", "/", "b">> },               \* "/a/b"
   contents |-> { <<>>, <<"x">> },
   data |->
     { <<>>, (<<"/", "a">> :> <<"x">>), (<<"/", ".", ".">> :> <<>>),
       (<<"/", "a">> :> <<>>) @@ (<<"/", "a", "/", "b">> :> <<"x">>) },
   nodeData |->
     { (ROOT_PATH :> RootRecord),
       (ROOT_PATH :> RootRecord)
         @@ (<<"/", "a">> :> DirRecord(<<"a">>, <<"/", "a">>)),
       (<<"/", "a">> :> FileRecord(<<"a">>, <<"/", "a">>, <<>>))
         @@ (<<"/", "a", "/", "b">> :>
               FileRecord(<<"b">>, <<"/", "a", "/", "b">>, <<"x">>)) },
   replaces |-> { <<<<"x">>, <<>>>> },
   inserts |-> { <<Some(0), <<>>>> },
   maxContent |-> MaxTreeContent]

\* The spellings of the root.
RootInputs ==
  [paths |->
     { <<>>,                                   \* ""
       <<"/">>,                                \* "/"
       <<"/", "/">>,                           \* "//"
       <<"/", "a">>,                           \* "/a"
       <<"/", "a", "/", "b">> },               \* "/a/b"
   contents |-> { <<>>, <<"x">> },
   data |->
     { <<>>, (ROOT_PATH :> <<"x">>),
       (<<>> :> <<>>) @@ (<<"/", "a">> :> <<"x">>) },
   nodeData |->
     { (ROOT_PATH :> FileRecord(ROOT_PATH, ROOT_PATH, <<"x">>)),
       (<<"/", "/">> :> FileRecord(<<>>, <<"/", "/">>, <<>>))
         @@ (<<"/", "a">> :> DirRecord(<<"a">>, <<"/", "a">>)) },
   replaces |-> { <<<<"x">>, <<>>>> },
   inserts |-> { <<Some(0), <<>>>> },
   maxContent |-> MaxTreeContent]

\* Paths that sanitizePath refuses, beside two it accepts.
PathInputs ==
  [paths |->
     { <<"/", "a">>,                           \* "/a"
       <<"/", "a{999}">>,                      \* 1000 characters
       <<"/", "a", "a{999}">>,                 \* 1001 characters
       <<"/", ".", ".">>,                      \* "/.."
       <<"/", "a", "/", "~">>,                 \* "/a/~"
       <<"/", "a", "|">>,                      \* "/a|"
       <<"/", "\t">> },                        \* "/" and a tab
   contents |-> { <<>>, <<"x">> },
   data |-> { <<>>, (<<"/", "a", "?">> :> <<"x">>) },
   nodeData |->
     { (ROOT_PATH :> RootRecord)
         @@ (<<"/", "a">> :> DirRecord(<<"a">>, <<"/", "a">>)) },
   replaces |-> { <<<<"x">>, <<>>>> },
   inserts |-> { <<Some(0), <<>>>> },
   ranges |-> { None, Some(<<1, -1>>) },
   maxContent |-> MaxTreeContent]

\* What the content policy and the sanitizer refuse, addressed to the
\* commands of the editor tools and to the programmatic operations alike.
ToolInputs ==
  [paths |->
     { <<"/", "d", "/", "a", ".", "t", "s">>,             \* "/d/a.ts"
       <<"/", "d", "/", "a", ".", "e", "x", "e">>,        \* "/d/a.exe"
       <<"/", "a", ".", "e", "x", "e", "/", "/">>,        \* "/a.exe//"
       <<"/", ".", ".">> },                               \* "/.."
   contents |->
     { <<>>, <<"x">>, <<"MiB", "x">>, <<"<script>", "</script>">> },
   data |-> { (<<"/", "d", "/", "a", ".", "t", "s">> :> <<"x">>) },
   nodeData |->
     { (ROOT_PATH :> RootRecord)
         @@ (<<"/", "d">> :> DirRecord(<<"d">>, <<"/", "d">>)) },
   replaces |-> { <<<<"x">>, <<"MiB", "x">>>> },
   inserts |-> { <<Some(1), <<"<script>", "</script>">>>> },
   ranges |-> { None, Some(<<1, -1>>) },
   maxContent |-> MaxContent]

\* One path, whose file the editor commands read and edit: contents of
\* one to three lines, repeated and overlapping occurrences, and line
\* numbers and ranges inside and outside the file.
EditInputs ==
  [paths |-> { <<"/", "f">> },                             \* "/f"
   contents |->
     { <<>>, <<"x">>, <<"x", "x", "x">>, <<"x", "\n", "y">>, <<"\n", "\n">> },
   data |-> { (<<"/", "f">> :> <<"x", "\n">>) },
   nodeData |->
     { (ROOT_PATH :> RootRecord)
         @@ (<<"/", "f">> :> DirRecord(<<"f">>, <<"/", "f">>)) },
   replaces |->
     { <<<<"x", "x">>, <<"y">>>>, <<<<"x">>, <<"y", "x">>>>,
       <<<<"x">>, <<"y">>>>, <<<<>>, <<"y">>>> },
   inserts |->
     { <<None, <<>>>>, <<Some(-1), <<>>>>, <<Some(0), <<"y">>>>,
       <<Some(1), <<>>>>, <<Some(2), <<>>>>, <<Some(3), <<>>>>,
       <<Some(0), <<"<script>", "</script>">>>> },
   ranges |->
     { None, Some(<<1, -1>>), Some(<<0, 0>>), Some(<<1, -2>>),
       Some(<<2, 5>>) },
   maxContent |-> MaxContent]

(***************************************************************************)
(* The state of the FileSystemContext beside the VirtualFileSystem         *)
(* instance (useFileSystemReducer): selectedFile is null or a path.        *)
(***************************************************************************)
initialState == [selectedFile |-> None, refreshTrigger |-> 0]

\* The Project rows the database holds at the start: one of user "u", one
\* of user "v".  A row is the owner, the messages and the data last saved.
Project(userId, messages, data) ==
  [userId |-> userId, messages |-> messages, data |-> data]

InitialProjects ==
  (<<"uuid-1">> :> Project(<<"u">>, <<>>, <<>>))
    @@ (<<"uuid-2">> :> Project(<<"v">>, <<>>, <<>>))

(***************************************************************************)
(* One action per public operation.  `last` records the call that led to   *)
(* the state: its name, its path arguments, what it returned, what it      *)
(* threw, and whether it replaced an entry of a children Map.              *)
(***************************************************************************)
Call(op, path, path2, r, replaced) ==
  [op |-> op, path |-> path, path2 |-> path2, ret |-> r.ret, err |-> r.err,
   replaced |-> replaced]

\* Whether between s and t a children Map's entry for a name it already
\* held was given another node.
ReplacedEntry(s, t) ==
  \E d \in DOMAIN s.nodes \cap DOMAIN t.nodes :
    \E i \in 1..Len(s.nodes[d].children), j \in 1..Len(t.nodes[d].children) :
      /\ s.nodes[d].children[i].name = t.nodes[d].children[j].name
      /\ s.nodes[d].children[i].id # t.nodes[d].children[j].id

\* The FileNode a call returned, under the number it has after the call.
Returned(r) ==
  IF r.err # NoErr \/ r.ret = NoNode THEN r
  ELSE [r EXCEPT !.ret = Number(Live(r.st), @)]

FileContents(s) ==
  {s.nodes[n].content : n \in {m \in DOMAIN s.nodes : s.nodes[m].type = "file"}}

\* The step of an operation whose result is r, within the bounds.
Step(op, path, path2, r, maxContent) ==
  /\ Cardinality(DOMAIN r.st.files) <= MaxNodes
  /\ \A c \in FileContents(r.st) : Len(c) <= maxContent
  /\ fs' = Collect(r.st)
  /\ last' = Call(op, path, path2, r,
                  /\ op \in {"createFile", "createDirectory", "rename"}
                  /\ ReplacedEntry(fs, r.st))
  /\ UNCHANGED <<context, cookie, serializedFiles, server>>

Init ==
  /\ fs = NewFS
  /\ last = [op |-> "new", path |-> <<>>, path2 |-> <<>>, ret |-> Null,
             err |-> NoErr, replaced |-> FALSE]
  /\ selectedFile = initialState.selectedFile
  /\ refreshTrigger = initialState.refreshTrigger
  /\ cookie = None
  /\ serializedFiles = None
  /\ projects = InitialProjects
  /\ pending = None

CreateFile(I) ==
  \E p \in I.paths, c \in I.contents :
    Step("createFile", p, <<>>, Returned(createFile(fs, p, c)), I.maxContent)

CreateDirectory(I) ==
  \E p \in I.paths :
    Step("createDirectory", p, <<>>, Returned(createDirectory(fs, p)),
         I.maxContent)

UpdateFile(I) ==
  \E p \in I.paths, c \in I.contents :
    Step("updateFile", p, <<>>, updateFile(fs, p, c), I.maxContent)

DeleteFile(I) ==
  \E p \in I.paths :
    Step("deleteFile", p, <<>>, deleteFile(fs, p, 1), I.maxContent)

Rename(I) ==
  \E p \in I.paths, q \in I.paths :
    Step("rename", p, q, rename(fs, p, q), I.maxContent)

CreateFileWithParents(I) ==
  \E p \in I.paths, c \in I.contents :
    Step("createFileWithParents", p, <<>>, createFileWithParents(fs, p, c),
         I.maxContent)

ReplaceInFile(I) ==
  \E p \in I.paths, a \in I.replaces :
    Step("replaceInFile", p, <<>>, replaceInFile(fs, p, a[1], a[2]),
         I.maxContent)

InsertInFile(I) ==
  \E p \in I.paths, a \in I.inserts :
    Step("insertInFile", p, <<>>, insertInFile(fs, p, a[1], a[2]),
         I.maxContent)

Deserialize(I) ==
  \E d \in I.data :
    Step("deserialize", <<>>, <<>>, deserialize(fs, d), I.maxContent)

DeserializeFromNodes(I) ==
  \E d \in I.nodeData :
    Step("deserializeFromNodes", <<>>, <<>>, deserializeFromNodes(fs, d),
         I.maxContent)

\* The snapshot of this instance loaded into a new VirtualFileSystem, which
\* takes its place: last.ret is the snapshot that was sent.
RoundTrip(I) ==
  Let(serialize(fs).ret, LAMBDA sent :
    Step("roundTrip", <<>>, <<>>,
         [deserializeFromNodes(NewFS, sent) EXCEPT !.ret = sent], I.maxContent))

Serialize(I) == Step("serialize", <<>>, <<>>, serialize(fs), I.maxContent)

Reset(I) == Step("reset", <<>>, <<>>, reset(fs), I.maxContent)

\* The FileNode[] a call returned, each node under the number it has after
\* the call.
ReturnedAll(r) ==
  IF r.err # NoErr \/ r.ret = None THEN r
  ELSE [r EXCEPT !.ret = Some([i \in 1..Len(@[1]) |->
                                 Number(Live(r.st), @[1][i])])]

ReadFile(I) ==
  \E p \in I.paths :
    Step("readFile", p, <<>>, readFile(fs, p), I.maxContent)

Exists(I) ==
  \E p \in I.paths : Step("exists", p, <<>>, exists(fs, p), I.maxContent)

GetNode(I) ==
  \E p \in I.paths :
    Step("getNode", p, <<>>, Returned(getNode(fs, p)), I.maxContent)

ListDirectory(I) ==
  \E p \in I.paths :
    Step("listDirectory", p, <<>>, ReturnedAll(listDirectory(fs, p)),
         I.maxContent)

ViewFile(I) ==
  \E p \in I.paths, v \in I.ranges :
    Step("viewFile", p, <<>>, viewFile(fs, p, v), I.maxContent)

\* The operations that read the tree.
Query(I) ==
  \/ ReadFile(I)
  \/ Exists(I)
  \/ GetNode(I)
  \/ ListDirectory(I)
  \/ ViewFile(I)

\* The operations that change the tree.
Mutate(I) ==
  \/ CreateFile(I)
  \/ CreateDirectory(I)
  \/ UpdateFile(I)
  \/ DeleteFile(I)
  \/ Rename(I)
  \/ CreateFileWithParents(I)
  \/ ReplaceInFile(I)
  \/ InsertInFile(I)
  \/ Deserialize(I)
  \/ DeserializeFromNodes(I)
  \/ RoundTrip(I)
  \/ Reset(I)

Next == Mutate(TreeInputs)

Spec == Init /\ [][Next]_vars

NextExt == Mutate(ExtInputs)

SpecExt == Init /\ [][NextExt]_vars

NextContent == Mutate(ContentInputs)

SpecContent == Init /\ [][NextContent]_vars

NextCache == Mutate(CacheInputs) \/ Serialize(CacheInputs)

SpecCache == Init /\ [][NextCache]_vars

NextPaths == Mutate(PathInputs) \/ Query(PathInputs)

SpecPaths == Init /\ [][NextPaths]_vars

NextTools == Mutate(ToolInputs) \/ Query(ToolInputs)

SpecTools == Init /\ [][NextTools]_vars

NextEdit == Mutate(EditInputs) \/ Query(EditInputs)

SpecEdit == Init /\ [][NextEdit]_vars

NextRoot == Mutate(RootInputs)

SpecRoot == Init /\ [][NextRoot]_vars

(***************************************************************************)
(* The FileSystemContext (src/lib/contexts/file-system-context.tsx): the   *)
(* VirtualFileSystem instance and the reducer state.  A context c is       *)
(* [fileSystem, state]; a callback reads selectedFile as it was when the   *)
(* callback was made, which is the state before the call, and its          *)
(* dispatches take effect when it is over.                                 *)
(***************************************************************************)
getAllFiles(s) ==
  [path \in {q \in DOMAIN s.files : s.nodes[s.files[q]].type = "file"} |->
     s.nodes[s.files[path]].content]

fileSystemReducer(state, action) ==
  CASE action.type = "SELECT_FILE" ->
         [state EXCEPT !.selectedFile = action.payload]
    [] action.type = "TRIGGER_REFRESH" ->
         [state EXCEPT !.refreshTrigger = @ + 1]
    [] action.type = "RESET" ->
         [selectedFile |-> None, refreshTrigger |-> 0]
    [] OTHER -> state

dispatch(c, action) == [c EXCEPT !.state = fileSystemReducer(@, action)]

setSelectedFile(c, path) ==
  dispatch(c, [type |-> "SELECT_FILE", payload |-> path])

triggerRefresh(c) == dispatch(c, [type |-> "TRIGGER_REFRESH", payload |-> None])

resetState(c) == dispatch(c, [type |-> "RESET", payload |-> None])

\* The result of a call on c.fileSystem, as a result on the context.
Within(c, r) == [r EXCEPT !.st = [c EXCEPT !.fileSystem = r.st]]

\* A value of type string | null | undefined in a condition: null,
\* undefined and "" are falsy.
Truthy(v) == v # None /\ v[1] # <<>>

\* result.startsWith("Error:") for the messages of the editor commands.
StartsWithError(result) == result[1] = "Error: "

\* selectedFile === path || (selectedFile && selectedFile.startsWith(path + "/"))
SelectedAtOrUnder(selected, path) ==
  \/ selected = Some(path)
  \/ /\ Truthy(selected)
     /\ StartsWith(selected[1], path \o <<"/">>)

contextCreateFile(c, path, content) ==
  Do(Within(c, createFile(c.fileSystem, path, content)), LAMBDA success :
    Ret(IF success.ret # NoNode THEN triggerRefresh(success.st) ELSE success.st,
        success.ret))

contextUpdateFile(c, path, content) ==
  Do(Within(c, updateFile(c.fileSystem, path, content)), LAMBDA success :
    Ret(IF success.ret THEN triggerRefresh(success.st) ELSE success.st,
        success.ret))

\* if (success) { if (selected at or under path) setSelectedFile(null);
\* triggerRefresh(); }
Deleted(c, path) ==
  triggerRefresh(IF SelectedAtOrUnder(c.state.selectedFile, path)
                 THEN setSelectedFile(c, None)
                 ELSE c)

contextDeleteFile(c, path) ==
  Do(Within(c, deleteFile(c.fileSystem, path, 1)), LAMBDA success :
    Ret(IF success.ret THEN Deleted(success.st, path) ELSE success.st,
        success.ret))

renameFile(c, oldPath, newPath) ==
  Do(Within(c, rename(c.fileSystem, oldPath, newPath)), LAMBDA success :
    IF ~success.ret THEN Ret(success.st, FALSE)
    ELSE Let(c.state.selectedFile, LAMBDA selected :
      Ret(triggerRefresh(
            IF selected = Some(oldPath)
            THEN setSelectedFile(success.st, Some(newPath))
            ELSE IF Truthy(selected)
                    /\ StartsWith(selected[1], oldPath \o <<"/">>)
            THEN setSelectedFile(success.st,
                   Some(newPath \o SubstringFrom(selected[1], Len(oldPath))))
            ELSE success.st),
          TRUE)))

contextReset(c) ==
  Do(Within(c, reset(c.fileSystem)), LAMBDA done : Ret(resetState(done.st), Null))

\* One command of the editor tool: the result of the VirtualFileSystem
\* method, and a refresh unless the result is an error message.
Edited(r) ==
  Do(r, LAMBDA result :
    Ret(IF ~StartsWithError(result.ret) THEN triggerRefresh(result.st)
        ELSE result.st,
        Null))

\* toolName === "str_replace_editor": switch (command)
strReplaceEditor(c, args) ==
  CASE args.command = Some("create") ->
         IF Truthy(args.path) /\ args.file_text # None
         THEN Edited(Within(c, createFileWithParents(c.fileSystem, args.path[1],
                                                     args.file_text[1])))
         ELSE Ret(c, Null)
    [] args.command = Some("str_replace") ->
         IF Truthy(args.path) /\ args.old_str # None /\ args.new_str # None
         THEN Edited(Within(c, replaceInFile(c.fileSystem, args.path[1],
                                             args.old_str[1], args.new_str[1])))
         ELSE Ret(c, Null)
    [] args.command = Some("insert") ->
         IF Truthy(args.path) /\ args.new_str # None /\ args.insert_line # None
         THEN Edited(Within(c, insertInFile(c.fileSystem, args.path[1],
                                            args.insert_line, args.new_str[1])))
         ELSE Ret(c, Null)
    [] OTHER -> Ret(c, Null)

\* toolName === "file_manager": switch (command)
fileManager(c, args) ==
  CASE args.command = Some("rename") ->
         IF Truthy(args.path) /\ Truthy(args.new_path)
         THEN Do(renameFile(c, args.path[1], args.new_path[1]), LAMBDA renamed :
                Ret(renamed.st, Null))
         ELSE Ret(c, Null)
    [] args.command = Some("delete") ->
         IF Truthy(args.path)
         THEN Do(Within(c, deleteFile(c.fileSystem, args.path[1], 1)),
                 LAMBDA success :
                   Ret(IF success.ret THEN Deleted(success.st, args.path[1])
                       ELSE success.st,
                       Null))
         ELSE Ret(c, Null)
    [] OTHER -> Ret(c, Null)

\* A handler that takes the editor's commands from any tool and the file
\* manager's commands from any other.
handleAnyTool(c, toolCall) ==
  IF toolCall.args = None THEN Ret(c, Null)
  ELSE IF toolCall.args[1].command \in {Some("rename"), Some("delete")}
  THEN fileManager(c, toolCall.args[1])
  ELSE strReplaceEditor(c, toolCall.args[1])

handleToolCall(c, toolCall) ==
  IF toolCall.toolName = "str_replace_editor" /\ toolCall.args # None
  THEN strReplaceEditor(c, toolCall.args[1])
  ELSE IF toolCall.toolName = "file_manager" /\ toolCall.args # None
  THEN fileManager(c, toolCall.args[1])
  ELSE Ret(c, Null)

\* The root files of autoSelectFile: no "/" from index 1 on.
RootFiles(files) ==
  {path \in DOMAIN files : ~Includes(SubstringFrom(path, 1), <<"/">>)}

autoSelectFile(c) ==
  IF Truthy(c.state.selectedFile) THEN Ret(c, Null)
  ELSE Let(getAllFiles(c.fileSystem), LAMBDA files :
    IF <<"/", "A", "p", "p", ".", "j", "s", "x">> \in DOMAIN files
    THEN Ret(setSelectedFile(c, Some(<<"/", "A", "p", "p", ".", "j", "s", "x">>)),
             Null)
    ELSE IF RootFiles(files) # {}
    THEN Ret(setSelectedFile(c, Some(SortedKeys(RootFiles(files))[1])), Null)
    ELSE Ret(c, Null))

\* The arguments of a tool call beside the paths: all that a command may
\* need, each one missing in turn, none, and empty texts.
AllTexts ==
  [file_text |-> Some(<<"x">>), old_str |-> Some(<<"x">>),
   new_str |-> Some(<<"y">>), insert_line |-> Some(0)]

TextArguments ==
  { AllTexts,
    [AllTexts EXCEPT !.file_text = None],
    [AllTexts EXCEPT !.old_str = None],
    [AllTexts EXCEPT !.new_str = None],
    [AllTexts EXCEPT !.insert_line = None],
    [AllTexts EXCEPT !.file_text = Some(<<>>), !.new_str = Some(<<>>)],
    [AllTexts EXCEPT !.old_str = Some(<<>>)] }

\* A file under a directory, and the tool calls on them: the two tools and
\* another, their commands, another and none, and each argument present,
\* empty and missing.
ContextInputs ==
  [paths |->
     { <<"/", "a">>,                           \* "/a"
       <<"/", "a", "/", "b">> },               \* "/a/b"
   contents |-> { <<>>, <<"x">> },
   toolNames |-> { "str_replace_editor", "file_manager", "web_search" },
   commands |->
     { None, Some("create"), Some("str_replace"), Some("insert"),
       Some("rename"), Some("delete"), Some("view") },
   toolPaths |->
     { None, Some(<<>>), Some(<<"/", "a">>), Some(<<"/", "a", "/", "b">>) },
   newPaths |-> { None, Some(<<>>), Some(<<"/", "b">>) },
   texts |-> TextArguments,
   maxContent |-> MaxContextContent]

NoTexts ==
  [file_text |-> None, old_str |-> None, new_str |-> None, insert_line |-> None]

ToolCall(toolName, command, path, new_path, texts) ==
  [toolName |-> toolName,
   args |-> Some([command |-> command, path |-> path, new_path |-> new_path,
                  file_text |-> texts.file_text, old_str |-> texts.old_str,
                  new_str |-> texts.new_str,
                  insert_line |-> texts.insert_line])]

\* Calls without arguments, calls with the arguments of the editor tool and
\* calls with the arguments of the file manager tool, each for every tool
\* name and every command.
ToolCalls(I) ==
  {[toolName |-> n, args |-> None] : n \in I.toolNames}
    \cup
  {ToolCall(n, k, p, None, a) :
     n \in I.toolNames, k \in I.commands, p \in I.toolPaths, a \in I.texts}
    \cup
  {ToolCall(n, k, p, q, NoTexts) :
     n \in I.toolNames, k \in I.commands, p \in I.toolPaths, q \in I.newPaths}

\* The FileSystemContext of the state.
Context ==
  [fileSystem |-> fs,
   state |-> [selectedFile |-> selectedFile, refreshTrigger |-> refreshTrigger]]

\* The step of a callback of the context whose result is r, within the
\* bounds.
ContextStep(op, path, path2, r, maxContent) ==
  /\ Cardinality(DOMAIN r.st.fileSystem.files) <= MaxNodes
  /\ \A content \in FileContents(r.st.fileSystem) : Len(content) <= maxContent
  /\ r.st.state.refreshTrigger <= MaxRefresh
  /\ fs' = Collect(r.st.fileSystem)
  /\ last' = Call(op, path, path2, r, ReplacedEntry(fs, r.st.fileSystem))
  /\ selectedFile' = r.st.state.selectedFile
  /\ refreshTrigger' = r.st.state.refreshTrigger
  /\ UNCHANGED <<cookie, serializedFiles, server>>

\* An argument of a tool call, or "" when it is missing.
Given(toolCall, field) ==
  IF toolCall.args = None \/ toolCall.args[1][field] = None THEN <<>>
  ELSE toolCall.args[1][field][1]

HandleToolCall(I) ==
  \E toolCall \in ToolCalls(I) :
    ContextStep("handleToolCall", Given(toolCall, "path"),
                Given(toolCall, "new_path"), handleToolCall(Context, toolCall),
                I.maxContent)

ContextCreateFile(I) ==
  \E p \in I.paths, content \in I.contents :
    Let(contextCreateFile(Context, p, content), LAMBDA r :
      ContextStep("context.createFile", p, <<>>,
                  [r EXCEPT !.ret = r.err = NoErr /\ r.ret # NoNode],
                  I.maxContent))

ContextUpdateFile(I) ==
  \E p \in I.paths, content \in I.contents :
    ContextStep("context.updateFile", p, <<>>,
                contextUpdateFile(Context, p, content), I.maxContent)

ContextDeleteFile(I) ==
  \E p \in I.paths :
    ContextStep("context.deleteFile", p, <<>>, contextDeleteFile(Context, p),
                I.maxContent)

RenameFile(I) ==
  \E p \in I.paths, q \in I.paths :
    ContextStep("renameFile", p, q, renameFile(Context, p, q), I.maxContent)

ContextReset(I) ==
  ContextStep("context.reset", <<>>, <<>>, contextReset(Context), I.maxContent)

SetSelectedFile(I) ==
  \E selected \in {None} \cup {Some(p) : p \in I.paths} :
    ContextStep("setSelectedFile", <<>>, <<>>,
                Ret(setSelectedFile(Context, selected), Null), I.maxContent)

\* The effect that runs autoSelectFile after a render.
AutoSelectFile(I) ==
  ContextStep("autoSelectFile", <<>>, <<>>, autoSelectFile(Context),
              I.maxContent)

NextContext ==
  \/ HandleToolCall(ContextInputs)
  \/ ContextCreateFile(ContextInputs)
  \/ ContextUpdateFile(ContextInputs)
  \/ ContextDeleteFile(ContextInputs)
  \/ RenameFile(ContextInputs)
  \/ ContextReset(ContextInputs)
  \/ SetSelectedFile(ContextInputs)
  \/ AutoSelectFile(ContextInputs)

SpecContext == Init /\ [][NextContext]_vars

(***************************************************************************)
(* The ChatProvider (src/lib/contexts/chat-context.tsx), rendered inside   *)
(* the FileSystemProvider.  Its first render computes serializedFiles;     *)
(* useMemo keeps that value while its dependency, the VirtualFileSystem    *)
(* object, is the same object, which it is for the life of the provider.   *)
(***************************************************************************)
\* useMemo(() => fileSystem.serialize(), [fileSystem]) for the memo held
\* and the instance of the last render (always the same instance: true).
useMemoSerializedFiles(memo, s, sameInstance) ==
  IF memo # None /\ sameInstance THEN Ret(s, memo[1])
  ELSE serialize(s)

\* The body option of useAIChat.
RequestBody(files, projectId) == [files |-> files, projectId |-> projectId]

\* One tool per command, on one file and its new name.
ChatInputs ==
  [paths |-> { <<"/", "a">>, <<"/", "b">> },                 \* "/a", "/b"
   contents |-> { <<>>, <<"x">> },
   toolNames |-> { "str_replace_editor", "file_manager" },
   commands |->
     { Some("create"), Some("str_replace"), Some("insert"), Some("rename"),
       Some("delete") },
   toolPaths |-> { Some(<<"/", "a">>), Some(<<"/", "b">>) },
   newPaths |-> { Some(<<"/", "b">>) },
   texts |-> { AllTexts },
   projectIds |-> { None, Some(<<>>), Some(<<"uuid-1">>) },
   maxContent |-> MaxContextContent]

\* The first render of the ChatProvider.
MountChat ==
  /\ serializedFiles = None
  /\ Let(useMemoSerializedFiles(serializedFiles, fs, TRUE), LAMBDA r :
       /\ fs' = Collect(r.st)
       /\ serializedFiles' = Some(r.ret)
       /\ last' = Call("ChatProvider", <<>>, <<>>, Ret(r.st, Null), FALSE))
  /\ UNCHANGED <<context, cookie, server>>

\* handleSubmit of useAIChat: a render, then the request with the body of
\* that render.  last.ret is the body sent.
HandleSubmit(I) ==
  /\ serializedFiles # None
  /\ \E projectId \in I.projectIds :
       Let(useMemoSerializedFiles(serializedFiles, fs, TRUE), LAMBDA r :
         /\ fs' = Collect(r.st)
         /\ serializedFiles' = Some(r.ret)
         /\ last' = Call("handleSubmit", <<>>, <<>>,
                         Ret(r.st, RequestBody(r.ret, projectId)), FALSE))
  /\ UNCHANGED <<context, cookie, server>>

\* onToolCall of useAIChat.
OnToolCall(I) == serializedFiles # None /\ HandleToolCall(I)

\* An edit in the code editor.
EditorEdit(I) == serializedFiles # None /\ ContextUpdateFile(I)

NextChat ==
  \/ MountChat
  \/ HandleSubmit(ChatInputs)
  \/ OnToolCall(ChatInputs)
  \/ EditorEdit(ChatInputs)

SpecChat == Init /\ [][NextChat]_vars

\* Two files at the root, the first under three spellings that the
\* VirtualFileSystem takes for the same path, and the file manager's
\* commands on them.
SelectInputs ==
  [paths |->
     { <<"/", "a">>,                           \* "/a"
       <<"/", "a", "/">>,                      \* "/a/"
       <<"a">>,                                \* "a"
       <<"/", "b">> },                         \* "/b"
   contents |-> { <<>> },
   toolNames |-> { "file_manager" },
   commands |-> { Some("rename"), Some("delete") },
   toolPaths |-> { Some(<<"/", "a">>), Some(<<"/", "a", "/">>), Some(<<"a">>) },
   newPaths |-> { Some(<<"/", "b">>), Some(<<"b">>) },
   texts |-> { NoTexts },
   maxContent |-> MaxContextContent]

NextSelect ==
  \/ HandleToolCall(SelectInputs)
  \/ ContextCreateFile(SelectInputs)
  \/ ContextDeleteFile(SelectInputs)
  \/ RenameFile(SelectInputs)
  \/ SetSelectedFile(SelectInputs)
  \/ AutoSelectFile(SelectInputs)

SpecSelect == Init /\ [][NextSelect]_vars

\* A file with an allowed extension and one with another, below a
\* directory that the create command has to make, and every callback of
\* the context on them.
RefreshInputs ==
  [paths |->
     { <<"/", "d">>,                                       \* "/d"
       <<"/", "d", "/", "a", ".", "t", "s">> },            \* "/d/a.ts"
   contents |-> { <<>>, <<"x">> },
   toolNames |-> { "str_replace_editor", "file_manager" },
   commands |->
     { Some("create"), Some("str_replace"), Some("insert"), Some("rename"),
       Some("delete") },
   toolPaths |->
     { Some(<<"/", "d", "/", "a", ".", "t", "s">>),        \* "/d/a.ts"
       Some(<<"/", "d", "/", "a", ".", "e", "x", "e">>) }, \* "/d/a.exe"
   newPaths |-> { Some(<<"/", "d", "/", "b", ".", "t", "s">>) },
   texts |-> { AllTexts },
   maxContent |-> MaxContextContent]

NextRefresh ==
  \/ HandleToolCall(RefreshInputs)
  \/ ContextCreateFile(RefreshInputs)
  \/ ContextUpdateFile(RefreshInputs)
  \/ ContextDeleteFile(RefreshInputs)
  \/ RenameFile(RefreshInputs)
  \/ ContextReset(RefreshInputs)

SpecRefresh == Init /\ [][NextRefresh]_vars

(***************************************************************************)
(* Sessions (src/lib/auth.ts).  The auth-token cookie is absent (None) or  *)
(* holds a token.  A token is the empty string, a text that is not a JWS,  *)
(* or a JWS: the key that signed it, whether its exp claim has passed, and *)
(* the userId and email of its payload, each absent, empty or a text.      *)
(***************************************************************************)
JWT_SECRET == "JWT_SECRET"

Token(form, key, expired, userId, email) ==
  [form |-> form, key |-> key, expired |-> expired, userId |-> userId,
   email |-> email]

EmptyToken == Token("empty", "none", FALSE, None, None)

\* new SignJWT({...session}).setExpirationTime("7d").sign(JWT_SECRET)
SignJWT(userId, email, key) == Token("jws", key, FALSE, Some(userId), Some(email))

\* A decoding that checks neither the signature nor the exp claim.
decodeJwt(token, key) ==
  IF token.form # "jws" THEN Threw(token, "JWSInvalid")
  ELSE Ret(token, [userId |-> token.userId, email |-> token.email])

\* jose's jwtVerify: it throws for a text that is not a JWS, for a signature
\* made with another key and for an exp claim that has passed, and gives
\* the payload otherwise.
jwtVerify(token, key) ==
  IF token.form # "jws" THEN Threw(token, "JWSInvalid")
  ELSE IF token.key # key THEN Threw(token, "JWSSignatureVerificationFailed")
  ELSE IF token.expired THEN Threw(token, "JWTExpired")
  ELSE Ret(token, [userId |-> token.userId, email |-> token.email])

\* !token: undefined and "" are falsy.
NoToken(token) == token = None \/ token[1].form = "empty"

\* The body shared by getSession and verifySession: a throw inside try is
\* caught and answered with null.
SessionOf(store, token) ==
  IF NoToken(token) THEN Ret(store, None)
  ELSE Let(jwtVerify(token[1], JWT_SECRET), LAMBDA verified :
    IF verified.err # NoErr THEN Ret(store, None)
    ELSE Let(verified.ret, LAMBDA session :
      IF ~Truthy(session.userId) \/ ~Truthy(session.email)
      THEN Ret(store, None)
      ELSE Ret(store, Some(session))))

createSession(store, userId, email) ==
  Ret(Some(SignJWT(userId, email, JWT_SECRET)), Null)

\* token = cookieStore.get(COOKIE_NAME)?.value, the cookie of the state.
getSession(store) == SessionOf(store, store)

deleteSession(store) == Ret(None, Null)

verifySession(request) == SessionOf(request.cookies, request.cookies)

\* The tokens a browser may send.
AuthInputs ==
  [userIds |-> { <<>>, <<"u">> },
   emails |-> { <<>>, <<"e">> },
   tokens |->
     { EmptyToken, Token("malformed", "none", FALSE, None, None) }
       \cup
     { Token("jws", key, expired, userId, email) :
         key \in {JWT_SECRET, "development-secret-key"},
         expired \in BOOLEAN,
         userId \in {None, Some(<<>>), Some(<<"u">>)},
         email \in {None, Some(<<>>), Some(<<"e">>)} }]

\* The step of a function of auth.ts whose result is r.
AuthStep(op, r) ==
  /\ cookie' = r.st
  /\ last' = Call(op, <<>>, <<>>, r, FALSE)
  /\ UNCHANGED <<fs, context, serializedFiles, server>>

CreateSession(I) ==
  \E userId \in I.userIds, email \in I.emails :
    AuthStep("createSession", createSession(cookie, userId, email))

GetSession == AuthStep("getSession", getSession(cookie))

DeleteSession == AuthStep("deleteSession", deleteSession(cookie))

VerifySession == AuthStep("verifySession", verifySession([cookies |-> cookie]))

\* A request arrives with whatever cookie the browser chose to send.
Request(I) ==
  \E sent \in {None} \cup {Some(token) : token \in I.tokens} :
    AuthStep("request", Ret(sent, Null))

\* Time passes the exp claim of the token.
Expire ==
  /\ cookie # None
  /\ cookie[1].form = "jws"
  /\ ~cookie[1].expired
  /\ AuthStep("expire", Ret(Some([cookie[1] EXCEPT !.expired = TRUE]), Null))

NextAuth ==
  \/ CreateSession(AuthInputs)
  \/ GetSession
  \/ DeleteSession
  \/ VerifySession
  \/ Request(AuthInputs)
  \/ Expire

SpecAuth == Init /\ [][NextAuth]_vars

(***************************************************************************)
(* The chat endpoint (src/app/api/chat/route.ts).  A request body is       *)
(* [messages, files, projectId]: messages a sequence of [role, content],   *)
(* files a mapping from keys to node records, projectId a text or None     *)
(* for undefined.  A project id is one lexeme; the lexemes that start with *)
(* "uuid-" are the well-formed UUIDs.                                      *)
(***************************************************************************)
\* z.string().uuid().safeParse(val).success
IsUuid(val) == val \in {<<"uuid-1">>, <<"uuid-2">>, <<"uuid-3">>}

\* MessageSchema
MessageSchema(message) ==
  /\ message.role \in {"system", "user", "assistant"}
  /\ Size(message.content) <= 50000

\* name: min(1), max(255), "/" or /^[^<>:"/\\|?*\x00-\x1f]+$/
NameSchema(name) ==
  /\ Length(name) >= 1
  /\ Length(name) <= 255
  /\ \/ name = <<"/">>
     \/ \A i \in 1..Len(name) : name[i] \notin IllegalChars \cup {"/", "\\"}

\* path: min(1), max(1000), /^\/[^<>:"|?*\x00-\x1f]*$/
PathSchema(path) ==
  /\ Length(path) >= 1
  /\ Length(path) <= 1000
  /\ Head(path) = "/"
  /\ \A i \in 2..Len(path) : path[i] \notin IllegalChars

\* FileNodeSchema: content is optional.
FileNodeSchema(node) ==
  /\ node.type \in {"file", "directory"}
  /\ NameSchema(node.name)
  /\ PathSchema(node.path)
  /\ "content" \in DOMAIN node => Size(node.content) <= 1024 * 1024

\* A schema without the limits on the number of messages.
AnyNumberOfMessages(body) ==
  /\ \A i \in 1..Len(body.messages) : MessageSchema(body.messages[i])
  /\ \A key \in DOMAIN body.files : FileNodeSchema(body.files[key])
  /\ Cardinality(DOMAIN body.files) <= 50
  /\ \/ ~Truthy(body.projectId)
     \/ IsUuid(body.projectId[1])

\* ChatRequestSchema.parse(body) does not throw.
ChatRequestSchema(body) ==
  /\ Len(body.messages) >= 1
  /\ Len(body.messages) <= 100
  /\ \A i \in 1..Len(body.messages) : MessageSchema(body.messages[i])
  /\ \A key \in DOMAIN body.files : FileNodeSchema(body.files[key])
  /\ Cardinality(DOMAIN body.files) <= 50
  /\ \/ ~Truthy(body.projectId)
     \/ IsUuid(body.projectId[1])

\* What POST leaves: the status of the response, whether
\* deserializeFromNodes was called, whether streamText was started, and
\* the request whose onFinish is still to come.
Response(status, deserialized, streaming, open) ==
  [status |-> status, deserialized |-> deserialized, streaming |-> streaming,
   pending |-> open]

generationPrompt == [role |-> "system", content |-> <<"x">>]

\* POST for the body of the request and the cookie sent with it.
POST(body, sent) ==
  IF ~ChatRequestSchema(body) THEN Response(400, FALSE, FALSE, None)
  ELSE Let(<<generationPrompt>> \o body.messages, LAMBDA messages :
    Let(IF DOMAIN body.files # {}
        THEN deserializeFromNodes(NewFS, body.files)
        ELSE Ret(NewFS, Null), LAMBDA loaded :
      IF loaded.err # NoErr
      THEN Response(500, TRUE, FALSE, None)
      ELSE Response(200, DOMAIN body.files # {}, TRUE,
                    Some([projectId |-> body.projectId, messages |-> messages,
                          fileSystem |-> Collect(loaded.st),
                          cookie |-> sent]))))

\* messages.filter((m) => m.role !== "system")
WithoutSystem(messages) ==
  SelectSeq(messages, LAMBDA m : m.role # "system")

\* An update that asks for the id alone, whoever owns the project.
updateAnyOwner(table, id, userId, data, fails) ==
  IF fails THEN Threw(table, "PrismaClientKnownRequestError")
  ELSE IF id \notin DOMAIN table
  THEN Threw(table, "PrismaClientKnownRequestError")
  ELSE Ret([table EXCEPT ![id].messages = data.messages, ![id].data = data.data],
           Null)

\* prisma.project.update({ where: { id, userId }, data }): it throws when no
\* row matches, and when the database fails.
projectUpdate(table, id, userId, data, fails) ==
  IF fails THEN Threw(table, "PrismaClientKnownRequestError")
  ELSE IF id \notin DOMAIN table \/ table[id].userId # userId
  THEN Threw(table, "PrismaClientKnownRequestError")
  ELSE Ret([table EXCEPT ![id].messages = data.messages, ![id].data = data.data],
           Null)

\* onFinish of the request open, with the assistant's messages; fails says
\* whether the database fails.  A throw inside try is caught and logged.
onFinish(table, open, responseMessages, fails) ==
  IF ~Truthy(open.projectId) THEN Ret(table, Null)
  ELSE Let(getSession(open.cookie).ret, LAMBDA session :
    IF session = None THEN Ret(table, Null)
    ELSE Let(projectUpdate(table, open.projectId[1], session[1].userId[1],
                           [messages |-> WithoutSystem(open.messages)
                                           \o responseMessages,
                            data |-> serialize(open.fileSystem).ret],
                           fails), LAMBDA updated :
      Ret(updated.st, Null)))

\* The requests of the endpoint specification.
UserMessage(content) == [role |-> "user", content |-> content]

ManyMessages(n) == [i \in 1..n |-> UserMessage(<<"x">>)]

\* n directories "/aa", "/ab", ..., named by two letters each.
Letters == <<"a", "b", "c", "d", "e", "j", "s", "t", "x">>

ManyFiles(n) ==
  [key \in {<<"/", Letters[(i \div 9) + 1], Letters[(i % 9) + 1]>> :
              i \in 0..(n - 1)} |->
     DirRecord(Tail(key), key)]

OneFile(key, node) == (ROOT_PATH :> RootRecord) @@ (key :> node)

LongPath == <<"/", "a{999}", "a">>

RouteInputs ==
  [messages |->
     { <<>>, ManyMessages(1), ManyMessages(100), ManyMessages(101),
       <<UserMessage(<<"MiB">>)>>,
       <<[role |-> "tool", content |-> <<>>]>>,
       <<[role |-> "system", content |-> <<"x">>], UserMessage(<<"y">>)>> },
   files |->
     { <<>>,
       OneFile(<<"/", "a">>, FileRecord(<<"a">>, <<"/", "a">>, <<"x">>)),
       OneFile(<<"/", "a">>, FileRecord(<<"a">>, <<"/", "a">>, <<"MiB">>)),
       OneFile(<<"/", "a">>, DirRecord(<<"a">>, <<"/", "a">>)),
       ManyFiles(3),
       ManyFiles(51),
       OneFile(<<"/", "a">>, FileRecord(<<"a">>, <<"/", "a">>, <<"MiB", "x">>)),
       OneFile(LongPath, DirRecord(<<"a{999}", "a">>, LongPath)),
       OneFile(<<"/", "a">>, DirRecord(<<"a">>, LongPath)),
       OneFile(<<"/", "a">>, DirRecord(<<"a">>, <<"/", "<">>)),
       OneFile(<<"/", "a">>, DirRecord(<<"a">>, <<"a">>)),
       OneFile(<<"/", "a">>, DirRecord(<<"a", "/">>, <<"/", "a">>)),
       OneFile(<<"/", "a">>, [type |-> "symlink", name |-> <<"a">>,
                              path |-> <<"/", "a">>]),
       OneFile(<<"/", "a", ".", "e", "x", "e">>,
               FileRecord(<<"a", ".", "e", "x", "e">>,
                          <<"/", "a", ".", "e", "x", "e">>, <<>>)),
       OneFile(<<"/", ".", ".">>, DirRecord(<<"a">>, <<"/", "a">>)),
       OneFile(<<"/", "<">>, DirRecord(<<"a">>, <<"/", "a">>)),
       OneFile(<<"/", "a">>,
               FileRecord(<<"a">>, <<"/", "a">>, <<"<script>", "</script>">>)) },
   projectIds |->
     { None, Some(<<>>), Some(<<"uuid-1">>), Some(<<"uuid-2">>),
       Some(<<"uuid-3">>), Some(<<"x">>) },
   responses |-> { <<>>, <<[role |-> "assistant", content |-> <<"z">>]>> },
   userIds |-> { <<"u">> },
   emails |-> { <<"e">> },
   tokens |->
     { SignJWT(<<"u">>, <<"e">>, JWT_SECRET),
       SignJWT(<<"u">>, <<"e">>, "development-secret-key"),
       Token("jws", JWT_SECRET, FALSE, None, Some(<<"e">>)) }]

\* One deviation at a time from a request that is in order.
Requests(I) ==
  {[messages |-> m, files |-> OneFile(<<"/", "a">>, DirRecord(<<"a">>, <<"/", "a">>)),
    projectId |-> Some(<<"uuid-1">>)] : m \in I.messages}
    \cup
  {[messages |-> ManyMessages(1), files |-> f, projectId |-> Some(<<"uuid-1">>)] :
     f \in I.files}
    \cup
  {[messages |-> ManyMessages(1),
    files |-> OneFile(<<"/", "a">>, FileRecord(<<"a">>, <<"/", "a">>, <<"x">>)),
    projectId |-> id] : id \in I.projectIds}

\* A request arrives while none is streaming.  last.ret is the response
\* and the body it answers.
Post(I) ==
  /\ pending = None
  /\ \E body \in Requests(I) :
       Let(POST(body, cookie), LAMBDA response :
         /\ pending' = response.pending
         /\ last' = Call("POST", <<>>, <<>>,
                         Ret(fs, [status |-> response.status,
                                  deserialized |-> response.deserialized,
                                  streaming |-> response.streaming,
                                  body |-> body]),
                         FALSE))
  /\ UNCHANGED <<fs, context, cookie, serializedFiles, projects>>

\* The response of the streaming request finishes.  last.ret is the
\* request that finished.
OnFinish(I) ==
  /\ pending # None
  /\ \E responseMessages \in I.responses, fails \in BOOLEAN :
       Let(onFinish(projects, pending[1], responseMessages, fails), LAMBDA r :
         /\ projects' = r.st
         /\ last' = Call("onFinish", <<>>, <<>>,
                         [st |-> fs, ret |-> [open |-> pending[1], fails |-> fails],
                          err |-> r.err],
                         FALSE))
  /\ pending' = None
  /\ UNCHANGED <<fs, context, cookie, serializedFiles>>

NextRoute ==
  \/ Post(RouteInputs)
  \/ OnFinish(RouteInputs)
  \/ Request(RouteInputs)
  \/ CreateSession(RouteInputs)

SpecRoute == Init /\ [][NextRoute]_vars

(***************************************************************************)
(* normalizePath alone: the initial states draw the input, the one action  *)
(* applies the function.                                                   *)
(***************************************************************************)
RECURSIVE Strings(_)
Strings(n) ==
  IF n = 0 THEN {<<>>}
  ELSE LET shorter == Strings(n - 1)
       IN shorter \cup
          {Append(s, c) : s \in {x \in shorter : Len(x) = n - 1},
                          c \in {"/", "a", "."}}

InitNorm ==
  /\ fs = NewFS
  /\ \E p \in Strings(MaxLen) :
       last = [op |-> "input", path |-> p, path2 |-> <<>>, ret |-> Null,
               err |-> NoErr, replaced |-> FALSE]
  /\ selectedFile = initialState.selectedFile
  /\ refreshTrigger = initialState.refreshTrigger
  /\ cookie = None
  /\ serializedFiles = None
  /\ projects = InitialProjects
  /\ pending = None

NormalizePath ==
  /\ last.op = "input"
  /\ last' = [last EXCEPT !.op = "normalizePath",
                          !.ret = normalizePath(last.path)]
  /\ UNCHANGED <<fs, context, cookie, serializedFiles, server>>

NextNorm == NormalizePath

SpecNorm == InitNorm /\ [][NextNorm]_vars

(***************************************************************************)
(* The properties.                                                         *)
(***************************************************************************)
\* The nodes reachable from the root through children Maps.
Reachable(s) == Range(Visit(s, <<s.root>>, <<>>))

\* The index entries of node n.
KeysOf(s, n) == {p \in DOMAIN s.files : s.files[p] = n}

\* The node of an index entry.
NodeAt(s, p) == s.nodes[s.files[p]]

\* The text after the last separator of a path.
LastSegment(path) == SubstringFrom(path, LastIndexOf(path, PATH_SEPARATOR) + 1)

\* C1: in every reachable state the path index and the tree correspond
\* exactly: every node reachable from the root has exactly one index entry,
\* and every index entry is a node reachable from the root.
C1_IndexMatchesTree ==
  /\ \A n \in Reachable(fs) : Cardinality(KeysOf(fs, n)) = 1
  /\ \A p \in DOMAIN fs.files : fs.files[p] \in Reachable(fs)

\* createFile("/a//", ...) succeeded and left an index entry whose node the
\* root no longer reaches.
C1_UnreachableEntry ==
  /\ last.op = "createFile"
  /\ last.path = <<"/", "a", "/", "/">>
  /\ last.err = NoErr
  /\ last.ret # NoNode
  /\ \E p \in DOMAIN fs.files : fs.files[p] \notin Reachable(fs)

\* The index keys of s at path or below it.
Subtree(s, path) ==
  {k \in DOMAIN s.files : k = path \/ StartsWith(k, path \o <<PATH_SEPARATOR>>)}

\* C2: after rename(oldPath, newPath) returns true for a directory at
\* oldPath, for every node that was at oldPath or at oldPath + "/" + suffix:
\* exists(old path) is false, exists(newPath + the same suffix) is true with
\* the same type and content, and every key of the path index equals the
\* path stored in the node it maps to.
C2_RenameMovesSubtree ==
  [][(/\ last'.op = "rename"
      /\ last'.err = NoErr
      /\ last'.ret = TRUE
      /\ getNode(fs, last'.path).ret # NoNode
      /\ fs.nodes[getNode(fs, last'.path).ret].type = "directory")
     => /\ \A k \in Subtree(fs, sanitizePath(last'.path).ret) :
             LET suffix == SubstringFrom(k, Len(sanitizePath(last'.path).ret))
                 now == getNode(fs', last'.path2 \o suffix).ret
             IN /\ ~exists(fs', last'.path \o suffix).ret
                /\ now # NoNode
                /\ fs'.nodes[now].type = NodeAt(fs, k).type
                /\ fs'.nodes[now].content = NodeAt(fs, k).content
        /\ \A k \in DOMAIN fs'.files : NodeAt(fs', k).path = k]_vars

\* rename("/a", "/a//") returned true for a directory holding "/a/b", and
\* the child is now under the key "/a//b".
C2_ChildUnderDoubledSeparator ==
  /\ last.op = "rename"
  /\ last.path = <<"/", "a">>
  /\ last.err = NoErr
  /\ last.ret = TRUE
  /\ <<"/", "a", "/", "/", "b">> \in DOMAIN fs.files

\* C3: for every reachable tree T, deserializeFromNodes(serialize(T)) on a
\* file system completes without raising and yields a tree whose serialize()
\* output is deep-equal to serialize(T).
C3_RoundTrip ==
  last.op = "roundTrip" =>
    /\ last.err = NoErr
    /\ computeSerialize(fs) = last.ret

\* The snapshot of a tree holding a file renamed to "/a.exe" was refused.
C3_SnapshotRefused ==
  /\ last.op = "roundTrip"
  /\ last.err = "FileType"
  /\ <<"/", "a", ".", "e", "x", "e">> \in DOMAIN last.ret

\* C4: with serialize() calls interleaved anywhere, serialize() returns a
\* mapping equal to one freshly computed from the current path index; a
\* stale cached snapshot is never returned.
C4_SerializeFresh ==
  last.op = "serialize" => last.ret = computeSerialize(fs)

\* serialize() answered from the cache with a snapshot that is not the one
\* of the index.
C4_StaleSnapshot ==
  /\ last.op = "serialize"
  /\ fs.serializedCache # NoCache
  /\ DOMAIN last.ret # DOMAIN fs.files

\* The extension of a name: from its last ".", in lower case.
Extension(name) == SubstringFrom(ToLowerCase(name), LastIndexOf(name, "."))

\* C5: in every reachable state every File node whose path has an
\* extension has an allowed one, whatever the operations, rename included.
C5_AllowedExtensions ==
  \A n \in DOMAIN fs.nodes :
    (fs.nodes[n].type = "file" /\ Includes(LastSegment(fs.nodes[n].path), <<".">>))
      => Extension(LastSegment(fs.nodes[n].path)) \in ALLOWED_EXTENSIONS

\* rename("/a.ts", "/a.exe") returned true and the file is at "/a.exe".
C5_RenamedToExe ==
  /\ last.op = "rename"
  /\ last.err = NoErr
  /\ last.ret = TRUE
  /\ <<"/", "a", ".", "e", "x", "e">> \in DOMAIN fs.files
  /\ NodeAt(fs, <<"/", "a", ".", "e", "x", "e">>).type = "file"

\* C6: in every reachable state every File node's content has length at
\* most the 1 MiB limit and contains no inline script block.
C6_ContentPolicy ==
  \A n \in DOMAIN fs.nodes :
    fs.nodes[n].type = "file" =>
      /\ Size(fs.nodes[n].content) <= MAX_FILE_SIZE
      /\ ~HasScriptBlock(fs.nodes[n].content)

\* An edit was refused for its result, and the file it was made on still
\* holds an opening tag or exactly 1 MiB.
C6_EditRefused ==
  /\ last.op \in {"insertInFile", "replaceInFile"}
  /\ last.err \in {"Script", "FileSize"}
  /\ \E n \in DOMAIN fs.nodes :
       /\ fs.nodes[n].type = "file"
       /\ \/ Includes(fs.nodes[n].content, <<"<script>">>)
          \/ Size(fs.nodes[n].content) = MAX_FILE_SIZE

\* C7: for every input the normalized path starts with "/", has no
\* trailing "/" unless it is exactly "/", and contains no repeated
\* separators; so normalization is idempotent.
C7_Normalized ==
  last.op = "normalizePath" =>
    /\ StartsWith(last.ret, <<"/">>)
    /\ last.ret # <<"/">> => ~EndsWith(last.ret, <<"/">>)
    /\ ~Includes(last.ret, <<"/", "/">>)
    /\ normalizePath(last.ret) = last.ret

\* normalizePath("/a//") is "/a/".
C7_TrailingSlashKept ==
  /\ last.op = "normalizePath"
  /\ last.path = <<"/", "a", "/", "/">>
  /\ last.ret = <<"/", "a", "/">>

\* C8: every non-root node in the path index has name equal to the last
\* segment of its path and path equal to its parent's path + "/" + name
\* ("/" + name under the root), and is stored in its parent's children Map
\* under that name.
C8_NamePathParent ==
  \A p \in DOMAIN fs.files :
    fs.files[p] # fs.root =>
      /\ NodeAt(fs, p).name = LastSegment(NodeAt(fs, p).path)
      /\ \E q \in DOMAIN fs.files :
           /\ NodeAt(fs, q).type = "directory"
           /\ \E i \in 1..Len(NodeAt(fs, q).children) :
                NodeAt(fs, q).children[i] =
                  [name |-> NodeAt(fs, p).name, id |-> fs.files[p]]
           /\ NodeAt(fs, p).path =
                IF fs.files[q] = fs.root
                THEN <<"/">> \o NodeAt(fs, p).name
                ELSE NodeAt(fs, q).path \o <<"/">> \o NodeAt(fs, p).name

\* createFile("/a//", ...) succeeded and the node's path ends in "/".
C8_PathEndsInSeparator ==
  /\ last.op = "createFile"
  /\ last.err = NoErr
  /\ last.ret # NoNode
  /\ <<"/", "a", "/">> \in DOMAIN fs.files
  /\ NodeAt(fs, <<"/", "a", "/">>).name = <<"a">>

\* C9: no successful createFile, createDirectory or rename replaces an
\* existing entry of a parent's children Map, so two distinct nodes of the
\* path index never have the same parent and the same name.
C9_NoDuplicateSiblings ==
  /\ ~last.replaced
  /\ \A p, q \in DOMAIN fs.files :
       (/\ fs.files[p] # fs.files[q]
        /\ fs.files[p] # fs.root
        /\ fs.files[q] # fs.root
        /\ NodeAt(fs, p).name = NodeAt(fs, q).name)
         => getParentNode(fs, NodeAt(fs, p).path)
              # getParentNode(fs, NodeAt(fs, q).path)

\* createFile("/a//", ...) took the place of the directory "/a" in the
\* root's children Map.
C9_EntryReplaced ==
  /\ last.op = "createFile"
  /\ last.err = NoErr
  /\ last.ret # NoNode
  /\ last.replaced
  /\ <<"/", "a">> \in DOMAIN fs.files
  /\ <<"/", "a", "/">> \in DOMAIN fs.files

\* C10: in every reachable state exactly one root exists: the index maps
\* "/" to a Directory with path "/"; deleteFile and rename from a spelling
\* of "/" return false, createFile and createDirectory on one create
\* nothing, and no operation replaces, removes or retypes the root.
C10_OneRoot ==
  /\ ROOT_PATH \in DOMAIN fs.files
  /\ fs.files[ROOT_PATH] = fs.root
  /\ fs.nodes[fs.root].type = "directory"
  /\ fs.nodes[fs.root].path = ROOT_PATH
  /\ fs.nodes[fs.root].name = ROOT_PATH
  /\ \A n \in DOMAIN fs.nodes : fs.nodes[n].path = ROOT_PATH => n = fs.root
  /\ (/\ last.op \in {"deleteFile", "rename"}
      /\ normalizePath(last.path) = ROOT_PATH)
       => (last.err = NoErr /\ last.ret = FALSE)
  /\ (/\ last.op \in {"createFile", "createDirectory"}
      /\ normalizePath(last.path) = ROOT_PATH)
       => (last.err = NoErr /\ last.ret = NoNode)

\* deleteFile("//") returned false on a tree that holds more than the root.
C10_RootDeleteRefused ==
  /\ last.op = "deleteFile"
  /\ last.path = <<"/", "/">>
  /\ last.err = NoErr
  /\ last.ret = FALSE
  /\ Cardinality(DOMAIN fs.files) > 1

\* The path as the segments it names, each after one "/".
RECURSIVE JoinParts(_)
JoinParts(parts) ==
  IF parts = <<>> THEN <<>>
  ELSE <<"/">> \o Head(parts) \o JoinParts(Tail(parts))

Canonical(path) ==
  IF SplitParts(path, <<>>) = <<>> THEN <<"/">>
  ELSE JoinParts(SplitParts(path, <<>>))

\* A path whose normalized form holds "..", "~", a control character, one
\* of <>:"|?*, or more than 1000 characters.
Unsanitary(path) ==
  \/ Includes(Canonical(path), <<".", ".">>)
  \/ Includes(Canonical(path), <<"~">>)
  \/ \E i \in 1..Len(Canonical(path)) : Canonical(path)[i] \in IllegalChars
  \/ Length(Canonical(path)) > 1000

PathOperations ==
  {"createFile", "createDirectory", "readFile", "updateFile", "deleteFile",
   "rename", "exists", "getNode", "listDirectory"}

\* C11: a path-accepting operation called with an unsanitary path (rename:
\* with either path unsanitary) fails with the invalid-path error, and the
\* tree and the path index are after the call what they were before it.
C11_UnsanitaryPathRefused ==
  [][(/\ last'.op \in PathOperations
      /\ \/ Unsanitary(last'.path)
         \/ last'.op = "rename" /\ Unsanitary(last'.path2))
     => /\ last'.err = "InvalidPath"
        /\ fs'.nodes = fs.nodes
        /\ fs'.files = fs.files]_vars

\* rename of the existing "/a" to a path with "~" was refused.
C11_RenameToTildeRefused ==
  /\ last.op = "rename"
  /\ last.path = <<"/", "a">>
  /\ last.path2 = <<"/", "a", "/", "~">>
  /\ last.err = "InvalidPath"
  /\ <<"/", "a">> \in DOMAIN fs.files


\* C12: createFile or createDirectory on a path at which a node exists
\* returns null, and the tree and the path index are after the call what
\* they were before it.
C12_CreateOnExistingRefused ==
  [][(/\ last'.op \in {"createFile", "createDirectory"}
      /\ ~Unsanitary(last'.path)
      /\ Canonical(last'.path) \in DOMAIN fs.files)
     => /\ last'.err = NoErr
        /\ last'.ret = NoNode
        /\ fs'.nodes = fs.nodes
        /\ fs'.files = fs.files]_vars

\* createFile on the existing "/b" threw for its content.
C12_CreateOnExistingThrew ==
  /\ last.op = "createFile"
  /\ last.path = <<"/", "b">>
  /\ last.err = "Script"
  /\ <<"/", "b">> \in DOMAIN fs.files

\* C13: rename returns false when oldPath is the root, when no node is at
\* oldPath, or when a node is at newPath, and the tree and the path index
\* are then after the call what they were before it.
C13_RenameRefused ==
  [][(/\ last'.op = "rename"
      /\ ~Unsanitary(last'.path)
      /\ ~Unsanitary(last'.path2)
      /\ \/ Canonical(last'.path) = ROOT_PATH
         \/ Canonical(last'.path) \notin DOMAIN fs.files
         \/ Canonical(last'.path2) \in DOMAIN fs.files)
     => /\ last'.err = NoErr
        /\ last'.ret = FALSE
        /\ fs'.nodes = fs.nodes
        /\ fs'.files = fs.files]_vars

\* rename("/b", "/a//") succeeded and gave the root's entry "a" another node.
C13_RenamedOntoExisting ==
  /\ last.op = "rename"
  /\ last.path = <<"/", "b">>
  /\ last.path2 = <<"/", "a", "/", "/">>
  /\ last.err = NoErr
  /\ last.ret = TRUE
  /\ last.replaced

\* What an index entry shows of its node, children by name.
Shown(s, p) ==
  [type |-> NodeAt(s, p).type, name |-> NodeAt(s, p).name,
   path |-> NodeAt(s, p).path, content |-> NodeAt(s, p).content,
   children |-> [i \in 1..Len(NodeAt(s, p).children) |->
                   NodeAt(s, p).children[i].name]]

\* Whether path p is path q or lies below it.
AtOrBelow(p, q) == p = q \/ StartsWith(p, q \o <<"/">>)

\* The path of the directory that holds path p.
ParentOf(p) ==
  IF LastIndexOf(p, "/") <= 0 THEN <<"/">>
  ELSE SubstringTo(p, LastIndexOf(p, "/"))

\* C14: after deleteFile(p) returned true the path index has no key at or
\* below normalize(p), the parent does not list the node, and every node
\* outside the subtree is what it was (the parent but for that entry).
C14_DeleteRemovesSubtree ==
  [][(/\ last'.op = "deleteFile"
      /\ last'.err = NoErr
      /\ last'.ret = TRUE)
     => /\ \A k \in DOMAIN fs'.files : ~AtOrBelow(k, Canonical(last'.path))
        /\ ParentOf(Canonical(last'.path)) \in DOMAIN fs'.files
             => \A i \in 1..Len(NodeAt(fs', ParentOf(Canonical(last'.path)))
                                  .children) :
                  NodeAt(fs', ParentOf(Canonical(last'.path))).children[i].name
                    # LastSegment(Canonical(last'.path))
        /\ \A k \in DOMAIN fs.files :
             ~AtOrBelow(k, Canonical(last'.path))
               => /\ k \in DOMAIN fs'.files
                  /\ k # ParentOf(Canonical(last'.path))
                       => Shown(fs', k) = Shown(fs, k)
                  /\ Shown(fs', k).content = Shown(fs, k).content
                  /\ Shown(fs', k).type = Shown(fs, k).type]_vars

\* deleteFile("/a//") returned true and the index still has the key "/a".
C14_KeySurvivesDelete ==
  /\ last.op = "deleteFile"
  /\ last.path = <<"/", "a", "/", "/">>
  /\ last.err = NoErr
  /\ last.ret = TRUE
  /\ <<"/", "a">> \in DOMAIN fs.files

\* A path whose last segment has an extension outside the allowed ones.
Disallowed(path) ==
  /\ Includes(LastSegment(Canonical(path)), <<".">>)
  /\ Extension(LastSegment(Canonical(path))) \notin ALLOWED_EXTENSIONS

\* Whether the call with result r failed and wrote nothing to state s.
FailedWithoutWriting(s, r, falsy) ==
  /\ r.err # NoErr \/ r.ret = falsy
  /\ r.st.nodes = s.nodes
  /\ r.st.files = s.files

\* C15: in every reachable state, createFile with a disallowed extension or
\* with content longer than 1 MiB, and updateFile with content longer than
\* 1 MiB, fail and leave the tree and the path index as they are.
C15_RejectedWritesNothing ==
  \A p \in ToolInputs.paths, c \in ToolInputs.contents :
    /\ (~Unsanitary(p) /\ (Disallowed(p) \/ Size(c) > 1048576))
         => FailedWithoutWriting(fs, createFile(fs, p, c), NoNode)
    /\ (~Unsanitary(p) /\ Size(c) > 1048576)
         => FailedWithoutWriting(fs, updateFile(fs, p, c), FALSE)

\* createFile("/a.exe//") returned a File named "a.exe".
C15_ExeCreated ==
  /\ last.op = "createFile"
  /\ last.path = <<"/", "a", ".", "e", "x", "e", "/", "/">>
  /\ last.err = NoErr
  /\ last.ret # NoNode
  /\ fs.nodes[last.ret].type = "file"
  /\ fs.nodes[last.ret].name = <<"a", ".", "e", "x", "e">>

\* The paths of the directories above a path, the root left out.
Ancestors(path) ==
  {JoinParts(SubSeq(SplitParts(path, <<>>), 1, k)) :
     k \in 1..(Len(SplitParts(path, <<>>)) - 1)}

\* C16: when createFileWithParents(path, content) threw, or left no node at
\* path, no ancestor directory of path that was missing before the call
\* exists after it.
C16_NoPartialWrite ==
  [][(/\ last'.op = "createFileWithParents"
      /\ \/ last'.err # NoErr
         \/ Canonical(last'.path) \notin DOMAIN fs'.files)
     => \A q \in Ancestors(last'.path) :
          q \notin DOMAIN fs.files => q \notin DOMAIN fs'.files]_vars

\* createFileWithParents("/d/a.exe") threw for the extension and "/d" is
\* the one node beside the root.
C16_ParentLeftBehind ==
  /\ last.op = "createFileWithParents"
  /\ last.path = <<"/", "d", "/", "a", ".", "e", "x", "e">>
  /\ last.err = "FileType"
  /\ DOMAIN fs.files = {<<"/">>, <<"/", "d">>}

\* Whether the result r of createFileWithParents(path, content) in state s
\* tells what happened.
Accurate(s, r, path, content) ==
  /\ r.ret = ErrorMessage("File already exists: ", path)
       <=> Canonical(path) \in DOMAIN s.files
  /\ r.ret = Message("File created: ", path)
       => /\ Canonical(path) \in DOMAIN r.st.files
          /\ NodeAt(r.st, Canonical(path)).type = "file"
          /\ NodeAt(r.st, Canonical(path)).content = content

\* C17: in every reachable state createFileWithParents(path, content), when
\* it returns, returns "Error: File already exists: <path>" exactly when a
\* node is at path, and returns "File created: <path>" only when after the
\* call a File node at path holds exactly content.
C17_MessagesAccurate ==
  \A p \in CacheInputs.paths, c \in CacheInputs.contents :
    createFileWithParents(fs, p, c).err = NoErr
      => Accurate(fs, createFileWithParents(fs, p, c), p, c)

\* createFileWithParents("/a/b") reported a creation below the File "/a",
\* and no node is at "/a/b".
C17_CreationMisreported ==
  /\ last.op = "createFileWithParents"
  /\ last.path = <<"/", "a", "/", "b">>
  /\ last.err = NoErr
  /\ last.ret = Message("File created: ", <<"/", "a", "/", "b">>)
  /\ <<"/", "a">> \in DOMAIN fs.files
  /\ NodeAt(fs, <<"/", "a">>).type = "file"
  /\ <<"/", "a", "/", "b">> \notin DOMAIN fs.files

ToolOperations ==
  {"viewFile", "createFileWithParents", "replaceInFile", "insertInFile"}

\* C18: viewFile, createFileWithParents, replaceInFile and insertInFile
\* never raise: each call returns a string, which for a failure starts with
\* "Error: " or, from viewFile, "File not found: ".
C18_ToolsNeverRaise ==
  last.op \in ToolOperations =>
    /\ last.err = NoErr
    /\ last.ret[1] \in {"", "Error: "}

\* insertInFile raised for the script block its edit of "/d/a.ts" made.
C18_InsertRaised ==
  /\ last.op = "insertInFile"
  /\ last.path = <<"/", "d", "/", "a", ".", "t", "s">>
  /\ last.err = "Script"
  /\ NodeAt(fs, <<"/", "d", "/", "a", ".", "t", "s">>).content = <<"x">>

ProgrammaticOperations ==
  {"createFile", "updateFile", "deleteFile", "rename", "readFile",
   "listDirectory"}

\* C19: createFile, updateFile, deleteFile, rename, readFile and
\* listDirectory raise for nothing but an unsanitary path: every other
\* failure, a rejection by the content policy included, is a null or false
\* result.
C19_FailuresAreFalsy ==
  last.op \in ProgrammaticOperations => last.err \in {NoErr, "InvalidPath"}

\* createFile("/d/a.exe") raised for the extension, on the empty tree.
C19_CreateRaised ==
  /\ last.op = "createFile"
  /\ last.path = <<"/", "d", "/", "a", ".", "e", "x", "e">>
  /\ last.err = "FileType"
  /\ DOMAIN fs.files = {<<"/">>}

\* C20: createDirectory(path), when no node is at path and no ancestor of
\* path is a File, returns the new node, and afterwards path and every
\* ancestor of path are directories; when a node is at path it returns null.
C20_DirectoryAncestorsCreated ==
  [][(last'.op = "createDirectory" /\ ~Unsanitary(last'.path))
     => /\ last'.err = NoErr
        /\ Canonical(last'.path) \in DOMAIN fs.files => last'.ret = NoNode
        /\ (/\ Canonical(last'.path) \notin DOMAIN fs.files
            /\ \A q \in Ancestors(last'.path) :
                 q \in DOMAIN fs.files => NodeAt(fs, q).type = "directory")
           => /\ last'.ret # NoNode
              /\ \A q \in Ancestors(last'.path) \cup {Canonical(last'.path)} :
                   /\ q \in DOMAIN fs'.files
                   /\ NodeAt(fs', q).type = "directory"]_vars

\* createDirectory("/a/b") returned null on the tree that holds the root
\* alone, and created nothing.
C20_NothingCreated ==
  /\ last.op = "createDirectory"
  /\ last.path = <<"/", "a", "/", "b">>
  /\ last.err = NoErr
  /\ last.ret = NoNode
  /\ DOMAIN fs.files = {<<"/">>}

\* The contents of the File nodes of the tree below the root.
TreeContents(s) ==
  {s.nodes[n].content : n \in {m \in Reachable(s) : s.nodes[m].type = "file"}}

\* What an index entry shows of its node, the children left out.
ShownAlone(s, p) ==
  [type |-> NodeAt(s, p).type, name |-> NodeAt(s, p).name,
   path |-> NodeAt(s, p).path, content |-> NodeAt(s, p).content]

\* C21: after rename(oldPath, newPath) returned true, every ancestor of
\* newPath is a directory, the node that was at oldPath is at newPath with
\* its type and content, the set of file contents of the tree is what it
\* was, and every node outside the moved subtree, the new ancestors apart,
\* is what it was.
C21_RenameFrame ==
  [][(/\ last'.op = "rename"
      /\ last'.err = NoErr
      /\ last'.ret = TRUE)
     => /\ \A q \in Ancestors(last'.path2) :
             /\ q \in DOMAIN fs'.files
             /\ NodeAt(fs', q).type = "directory"
        /\ Canonical(last'.path) \in DOMAIN fs.files
        /\ Canonical(last'.path2) \in DOMAIN fs'.files
        /\ NodeAt(fs', Canonical(last'.path2)).type
             = NodeAt(fs, Canonical(last'.path)).type
        /\ NodeAt(fs', Canonical(last'.path2)).content
             = NodeAt(fs, Canonical(last'.path)).content
        /\ TreeContents(fs') = TreeContents(fs)
        /\ \A k \in DOMAIN fs.files :
             ~AtOrBelow(k, Canonical(last'.path))
               => /\ k \in DOMAIN fs'.files
                  /\ ShownAlone(fs', k) = ShownAlone(fs, k)
        /\ \A k \in DOMAIN fs'.files :
             ~AtOrBelow(k, Canonical(last'.path2))
               => k \in DOMAIN fs.files \cup Ancestors(last'.path2)]_vars

\* rename("/a", "/a//") returned true: the node is under the key "/a/" and
\* no node is at "/a".
C21_MovedToTrailingSlash ==
  /\ last.op = "rename"
  /\ last.path = <<"/", "a">>
  /\ last.path2 = <<"/", "a", "/", "/">>
  /\ last.err = NoErr
  /\ last.ret = TRUE
  /\ <<"/", "a", "/">> \in DOMAIN fs.files
  /\ <<"/", "a">> \notin DOMAIN fs.files

\* The keys a snapshot with the given keys loads: the root, the keys and
\* their ancestors.
LoadedKeys(keys) ==
  {ROOT_PATH} \cup {Canonical(k) : k \in keys}
    \cup UNION {Ancestors(k) : k \in keys}

\* Whether state s holds the snapshot data and nothing else; content(k) is
\* the content of the entry of key k, directory(k) whether it is one of a
\* directory.
Loaded(s, keys, content(_), directory(_)) ==
  /\ DOMAIN s.files = LoadedKeys(keys)
  /\ {s.nodes[n].path : n \in Reachable(s)} = LoadedKeys(keys)
  /\ \A k \in keys :
       Canonical(k) # ROOT_PATH
         => IF directory(k) THEN NodeAt(s, Canonical(k)).type = "directory"
            ELSE /\ NodeAt(s, Canonical(k)).type = "file"
                 /\ NodeAt(s, Canonical(k)).content = content(k)

\* C22: in every reachable state deserialize(data) and
\* deserializeFromNodes(data), when they return, leave a path index that
\* holds exactly the root, a node for every entry of data (a File with the
\* entry's content, or a Directory for a record of that type) and the
\* ancestors of the entries.
C22_SnapshotLoaded ==
  /\ \A d \in CacheInputs.data :
       deserialize(fs, d).err = NoErr
         => Loaded(deserialize(fs, d).st, DOMAIN d,
                   LAMBDA k : d[k], LAMBDA k : FALSE)
  /\ \A d \in CacheInputs.nodeData :
       deserializeFromNodes(fs, d).err = NoErr
         => Loaded(deserializeFromNodes(fs, d).st, DOMAIN d,
                   LAMBDA k : d[k].content,
                   LAMBDA k : d[k].type = "directory")

\* deserialize of the entries "/a" (empty) and "/a/b" returned and the
\* index holds the root and the empty File "/a" alone.
C22_EntryDropped ==
  /\ last.op = "deserialize"
  /\ last.err = NoErr
  /\ DOMAIN fs.files = {<<"/">>, <<"/", "a">>}
  /\ NodeAt(fs, <<"/", "a">>).type = "file"
  /\ NodeAt(fs, <<"/", "a">>).content = <<>>

\* Whether the result r of updateFile(path, content) in state s is what
\* the contract of updateFile allows.
UpdateFrame(s, r, path, content) ==
  /\ (\/ Canonical(path) \notin DOMAIN s.files
      \/ NodeAt(s, Canonical(path)).type = "directory")
       => /\ r.ret = FALSE
          /\ r.st.nodes = s.nodes
          /\ r.st.files = s.files
  /\ r.ret = TRUE
       => /\ DOMAIN r.st.files = DOMAIN s.files
          /\ NodeAt(r.st, Canonical(path)).type = "file"
          /\ NodeAt(r.st, Canonical(path)).content = content
          /\ \A k \in DOMAIN s.files :
               /\ Shown(r.st, k).type = Shown(s, k).type
               /\ Shown(r.st, k).name = Shown(s, k).name
               /\ Shown(r.st, k).path = Shown(s, k).path
               /\ Shown(r.st, k).children = Shown(s, k).children
               /\ k # Canonical(path)
                    => Shown(r.st, k).content = Shown(s, k).content

\* C23: in every reachable state updateFile(path, content), when it
\* returns, returns false and changes nothing if no node is at path or the
\* node is a Directory, and if it returns true has changed nothing but the
\* content of the File at path, which is then content.
C23_UpdateFrame ==
  \A p \in TreeInputs.paths, c \in TreeInputs.contents :
    updateFile(fs, p, c).err = NoErr
      => UpdateFrame(fs, updateFile(fs, p, c), p, c)

\* updateFile("/a//") returned true and no node is at "/a".
C23_UpdatedMissingPath ==
  /\ last.op = "updateFile"
  /\ last.path = <<"/", "a", "/", "/">>
  /\ last.err = NoErr
  /\ last.ret = TRUE
  /\ <<"/", "a">> \notin DOMAIN fs.files

\* The first position at which old occurs in content, 0 when it does not.
FirstAt(content, old) ==
  IF \E i \in 1..(Len(content) - Len(old) + 1) :
       SubSeq(content, i, i + Len(old) - 1) = old
  THEN CHOOSE i \in 1..(Len(content) - Len(old) + 1) :
         /\ SubSeq(content, i, i + Len(old) - 1) = old
         /\ \A j \in 1..(i - 1) : SubSeq(content, j, j + Len(old) - 1) # old
  ELSE 0

\* content with every occurrence of the non-empty old, found from left to
\* right and not overlapping, replaced by new; and how many there are.
RECURSIVE AllReplaced(_, _, _)
AllReplaced(content, old, new) ==
  IF FirstAt(content, old) = 0 THEN content
  ELSE SubSeq(content, 1, FirstAt(content, old) - 1) \o new \o
       AllReplaced(SubSeq(content, FirstAt(content, old) + Len(old),
                          Len(content)), old, new)

RECURSIVE Occurrences(_, _)
Occurrences(content, old) ==
  IF FirstAt(content, old) = 0 THEN 0
  ELSE 1 + Occurrences(SubSeq(content, FirstAt(content, old) + Len(old),
                              Len(content)), old)

\* Whether the call with result r returned a message without "Error: ".
Succeeded(r) == r.err = NoErr /\ r.ret[1] = ""

\* C24: in every reachable state, when replaceInFile(path, oldStr, newStr)
\* succeeds, the content of the file is the former content with every
\* occurrence of oldStr, scanned from left to right, replaced by newStr, and
\* the message states the number of occurrences replaced.
C24_AllOccurrencesReplaced ==
  \A p \in EditInputs.paths, a \in EditInputs.replaces :
    Succeeded(replaceInFile(fs, p, a[1], a[2]))
      => /\ NodeAt(replaceInFile(fs, p, a[1], a[2]).st, p).content
              = AllReplaced(NodeAt(fs, p).content, a[1], a[2])
         /\ replaceInFile(fs, p, a[1], a[2]).ret
              = Message("Replaced occurrence(s): ",
                        Occurrences(NodeAt(fs, p).content, a[1]))

\* replaceInFile reported 3 occurrences and the file holds three "y".
C24_ThreeReplaced ==
  /\ last.op = "replaceInFile"
  /\ last.err = NoErr
  /\ last.ret = Message("Replaced occurrence(s): ", 3)
  /\ NodeAt(fs, <<"/", "f">>).content = <<"y", "y", "y">>

\* Whether replaceInFile(path, oldStr, newStr) has a reason to refuse in
\* state s: no node at path, a Directory at path, or an oldStr that is
\* empty or does not occur in the content.
NothingToReplace(s, path, oldStr) ==
  \/ Canonical(path) \notin DOMAIN s.files
  \/ NodeAt(s, Canonical(path)).type = "directory"
  \/ oldStr = <<>>
  \/ FirstAt(NodeAt(s, Canonical(path)).content, oldStr) = 0

\* Whether the call with result r returned a message with "Error: " and
\* wrote nothing to state s.
RefusedWithoutWriting(s, r) ==
  /\ r.err = NoErr
  /\ r.ret[1] = "Error: "
  /\ r.st.nodes = s.nodes
  /\ r.st.files = s.files

\* C25: in every reachable state replaceInFile(path, oldStr, newStr)
\* returns a string that starts with "Error: " and leaves the tree as it is
\* when no node is at path, when the node is a Directory, or when oldStr is
\* empty or does not occur in the content of the file.
C25_ReplaceRefused ==
  \A p \in TreeInputs.paths, a \in TreeInputs.replaces :
    NothingToReplace(fs, p, a[1])
      => RefusedWithoutWriting(fs, replaceInFile(fs, p, a[1], a[2]))

\* replaceInFile("/a//") replaced an occurrence and no node is at "/a".
C25_ReplacedAtMissingPath ==
  /\ last.op = "replaceInFile"
  /\ last.path = <<"/", "a", "/", "/">>
  /\ last.err = NoErr
  /\ last.ret = Message("Replaced occurrence(s): ", 1)
  /\ <<"/", "a">> \notin DOMAIN fs.files

\* The lines of a content: the text between its newlines.
LinesOf(content) ==
  [i \in 1..(Cardinality({j \in 1..Len(content) : content[j] = "\n"}) + 1) |->
     SubSeq(content,
            IF i = 1 THEN 1
            ELSE (CHOOSE j \in 1..Len(content) :
                    /\ content[j] = "\n"
                    /\ Cardinality({h \in 1..j : content[h] = "\n"}) = i - 1) + 1,
            IF i = Cardinality({j \in 1..Len(content) : content[j] = "\n"}) + 1
            THEN Len(content)
            ELSE (CHOOSE j \in 1..Len(content) :
                    /\ content[j] = "\n"
                    /\ Cardinality({h \in 1..j : content[h] = "\n"}) = i) - 1)]

\* Whether the result r of insertInFile(path, k, text) on the file of
\* state s with the given lines is what the contract allows; k is None or
\* Some(number).
InsertedAt(s, r, path, k, text, lines) ==
  IF k # None /\ k[1] >= 0 /\ k[1] <= Len(lines)
  THEN /\ Succeeded(r)
       /\ LinesOf(NodeAt(r.st, path).content)
            = SubSeq(lines, 1, k[1]) \o <<text>>
                \o SubSeq(lines, k[1] + 1, Len(lines))
  ELSE /\ r.err = NoErr
       /\ r.ret = ErrorMessage("Invalid line number: ", k)
       /\ NodeAt(r.st, path).content = NodeAt(s, path).content

\* C26: in every reachable state, for a file of n lines, insertInFile(path,
\* k, text) succeeds exactly when 0 <= k <= n, and then the lines are the
\* first k former lines, text, and the other n - k former lines; for k < 0,
\* k > n and k undefined it returns the invalid-line-number error and the
\* content is what it was.
C26_InsertAtLine ==
  \A p \in EditInputs.paths, a \in EditInputs.inserts :
    (p \in DOMAIN fs.files /\ NodeAt(fs, p).type = "file")
      => InsertedAt(fs, insertInFile(fs, p, a[1], a[2]), p, a[1], a[2],
                    LinesOf(NodeAt(fs, p).content))

\* Whether the content policy accepts the lines joined by newlines.
Accepted(lines) ==
  /\ Size(JoinLines(lines)) <= 1048576
  /\ ~HasScriptBlock(JoinLines(lines))

\* Whether the content policy accepts the file of lines with text inserted
\* at a line number k of the file.
InsertAccepted(lines, k, text) ==
  (k # None /\ k[1] >= 0 /\ k[1] <= Len(lines))
    => Accepted(SubSeq(lines, 1, k[1]) \o <<text>>
                  \o SubSeq(lines, k[1] + 1, Len(lines)))

\* C26, amended: the same for every insertion whose resulting content the
\* content policy accepts.
C26_InsertAtLineAccepted ==
  \A p \in EditInputs.paths, a \in EditInputs.inserts :
    (/\ p \in DOMAIN fs.files
     /\ NodeAt(fs, p).type = "file"
     /\ InsertAccepted(LinesOf(NodeAt(fs, p).content), a[1], a[2]))
      => InsertedAt(fs, insertInFile(fs, p, a[1], a[2]), p, a[1], a[2],
                    LinesOf(NodeAt(fs, p).content))

\* insertInFile appended an empty line to a file of two lines.
C26_Appended ==
  /\ last.op = "insertInFile"
  /\ last.err = NoErr
  /\ last.ret = Message("Text inserted at line: ", Some(2))
  /\ NodeAt(fs, <<"/", "f">>).content = <<"x", "\n", "\n">>

\* The lines numbered from to to of a file, each with its number.
NumberedLines(lines, from, to) ==
  [i \in 1..(IF to >= from THEN to - from + 1 ELSE 0) |->
     <<from + i - 1, lines[from + i - 1]>>]

ViewRanges == {<<start, end>> : start \in -1..4, end \in -3..4}

\* C27: in every reachable state, for a File of n lines and integers start
\* and end, viewFile(path, [start, end]) returns exactly the lines numbered
\* max(1, start) to min(n, end), to n when end = -1, each as its number and
\* its text.
C27_ViewRangeClamped ==
  \A p \in EditInputs.paths, v \in ViewRanges :
    (p \in DOMAIN fs.files /\ NodeAt(fs, p).type = "file")
      => /\ viewFile(fs, p, Some(v)).err = NoErr
         /\ viewFile(fs, p, Some(v)).ret
              = Message("lines",
                  NumberedLines(LinesOf(NodeAt(fs, p).content),
                    Max(1, v[1]),
                    IF v[2] = -1 THEN Len(LinesOf(NodeAt(fs, p).content))
                    ELSE Min(Len(LinesOf(NodeAt(fs, p).content)), v[2])))

\* viewFile(path, [1, -2]) returned the first line of a file of three.
C27_CountedFromEnd ==
  /\ last.op = "viewFile"
  /\ last.err = NoErr
  /\ <<"/", "f">> \in DOMAIN fs.files
  /\ NodeAt(fs, <<"/", "f">>).type = "file"
  /\ NodeAt(fs, <<"/", "f">>).content = <<"\n", "\n">>
  /\ last.ret = Message("lines", <<<<1, <<>>>>>>)

(***************************************************************************)
(* C29: after reset(), from any prior state, the path index holds exactly  *)
(* one entry, a root Directory at "/" with no children, and the next       *)
(* serialize() returns a mapping that holds only the root.                 *)
(***************************************************************************)
OnlyRoot(s) ==
  /\ DOMAIN s.files = {ROOT_PATH}
  /\ s.files[ROOT_PATH] = s.root
  /\ s.nodes[s.root].type = "directory"
  /\ s.nodes[s.root].path = ROOT_PATH
  /\ s.nodes[s.root].name = ROOT_PATH
  /\ s.nodes[s.root].children = <<>>

C29_ResetToRoot ==
  [][last'.op = "reset"
       => /\ last'.err = NoErr
          /\ OnlyRoot(fs')
          /\ serialize(fs').err = NoErr
          /\ serialize(fs').ret = (ROOT_PATH :> RootRecord)]_vars

\* reset() discarded a tree whose snapshot of two entries had been cached.
C29_ResetAfterSnapshot ==
  /\ last.op = "reset"
  /\ fs.cacheVersion = 2
  /\ fs.serializedCache = NoCache
  /\ OnlyRoot(fs)

(***************************************************************************)
(* C28: handleToolCall maps tool calls one to one onto the operations of   *)
(* the VirtualFileSystem: str_replace_editor create / str_replace / insert *)
(* call createFileWithParents / replaceInFile / insertInFile, file_manager *)
(* rename / delete call rename / deleteFile, once and with the arguments   *)
(* of the call; a call with another tool name, another command or a        *)
(* required argument missing leaves the file system as it is.              *)
(***************************************************************************)
\* The arguments a command requires.
Required(tool, command) ==
  CASE tool = "str_replace_editor" /\ command = Some("create") ->
         {"path", "file_text"}
    [] tool = "str_replace_editor" /\ command = Some("str_replace") ->
         {"path", "old_str", "new_str"}
    [] tool = "str_replace_editor" /\ command = Some("insert") ->
         {"path", "new_str", "insert_line"}
    [] tool = "file_manager" /\ command = Some("rename") -> {"path", "new_path"}
    [] tool = "file_manager" /\ command = Some("delete") -> {"path"}
    [] OTHER -> {}

\* A call of a known command of a known tool with what it requires.
WellFormed(toolCall) ==
  /\ toolCall.args # None
  /\ Required(toolCall.toolName, toolCall.args[1].command) # {}
  /\ \A field \in Required(toolCall.toolName, toolCall.args[1].command) :
       toolCall.args[1][field] # None

\* The one operation a well-formed call stands for, on file system s.
Operation(s, command, args) ==
  CASE command = Some("create") ->
         createFileWithParents(s, args.path[1], args.file_text[1])
    [] command = Some("str_replace") ->
         replaceInFile(s, args.path[1], args.old_str[1], args.new_str[1])
    [] command = Some("insert") ->
         insertInFile(s, args.path[1], args.insert_line, args.new_str[1])
    [] command = Some("rename") -> rename(s, args.path[1], args.new_path[1])
    [] command = Some("delete") -> deleteFile(s, args.path[1], 1)

C28_DispatchedOneToOne ==
  \A toolCall \in ToolCalls(ContextInputs) :
    handleToolCall(Context, toolCall).st.fileSystem
      = IF WellFormed(toolCall)
        THEN Operation(fs, toolCall.args[1].command, toolCall.args[1]).st
        ELSE fs

\* The create command of the editor tool made "/a/b" and its directory in
\* one call.
C28_CreatedByTool ==
  /\ last.op = "handleToolCall"
  /\ last.path = <<"/", "a", "/", "b">>
  /\ refreshTrigger = 1
  /\ DOMAIN fs.files = {ROOT_PATH, <<"/", "a">>, <<"/", "a", "/", "b">>}
  /\ NodeAt(fs, <<"/", "a">>).type = "directory"
  /\ NodeAt(fs, <<"/", "a", "/", "b">>).content = <<"x">>

(***************************************************************************)
(* C30: getSession and verifySession return null, and never raise, when    *)
(* the auth-token cookie is absent, its value is empty, the token fails    *)
(* verification, or the verified payload lacks userId or email; they       *)
(* return a session only for a token that verifies and carries both.       *)
(***************************************************************************)
\* A JWS signed with the secret of the server whose exp has not passed.
Verifies(token) ==
  token.form = "jws" /\ token.key = JWT_SECRET /\ ~token.expired

Carries(token, field) == token[field] # None

NoSessionIn(store) ==
  \/ store = None
  \/ store[1].form = "empty"
  \/ ~Verifies(store[1])
  \/ ~Carries(store[1], "userId")
  \/ ~Carries(store[1], "email")

C30_NullUnlessVerified ==
  last.op \in {"getSession", "verifySession"}
    => /\ last.err = NoErr
       /\ NoSessionIn(cookie) => last.ret = None
       /\ last.ret # None
            => /\ ~NoSessionIn(cookie)
               /\ last.ret = Some([userId |-> cookie[1].userId,
                                   email |-> cookie[1].email])

\* verifySession answered null for a token signed with another key.
C30_ForgedTokenRefused ==
  /\ last.op = "verifySession"
  /\ cookie # None
  /\ cookie[1].form = "jws"
  /\ cookie[1].key # JWT_SECRET
  /\ ~cookie[1].expired
  /\ Truthy(cookie[1].userId)
  /\ Truthy(cookie[1].email)
  /\ last.ret = None
  /\ last.err = NoErr

(***************************************************************************)
(* C31: rename(oldPath, newPath) terminates and leaves the tree acyclic    *)
(* and rooted for every pair of valid paths, also when newPath lies inside *)
(* the subtree of the directory at oldPath: no directory becomes its own   *)
(* descendant and the recursive rewrite of the paths finishes.             *)
(***************************************************************************)
\* The nodes below node n.
Descendants(s, n) ==
  Range(Visit(s, [i \in 1..Len(s.nodes[n].children) |->
                    s.nodes[n].children[i].id], <<>>))

Acyclic(s) == \A n \in DOMAIN s.nodes : n \notin Descendants(s, n)

Rooted(s) == \A p \in DOMAIN s.files : s.files[p] \in Reachable(s)

C31_RenameKeepsTree ==
  [][(last'.op = "rename" /\ Acyclic(fs) /\ Rooted(fs))
       => /\ last'.err = NoErr
          /\ Acyclic(fs')
          /\ Rooted(fs')]_vars

\* rename("/a", "/a/b") ran out of stack and left the directory as its own
\* child, out of the root's reach.
C31_OwnDescendant ==
  /\ last.op = "rename"
  /\ last.path = <<"/", "a">>
  /\ last.path2 = <<"/", "a", "/", "b">>
  /\ last.err = "RangeError"
  /\ \E n \in DOMAIN fs.nodes : n \in Descendants(fs, n)
  /\ ~Rooted(fs)

(***************************************************************************)
(* C32: deserialize and deserializeFromNodes are all-or-nothing: when the  *)
(* call raises for an entry with an unsanitary path, a disallowed          *)
(* extension or invalid content, the tree afterwards is the tree from      *)
(* before the call, never an emptied or partly loaded one.                 *)
(***************************************************************************)
C32_LoadAllOrNothing ==
  [][(last'.op \in {"deserialize", "deserializeFromNodes"} /\ last'.err # NoErr)
       => /\ fs'.files = fs.files
          /\ fs'.nodes = fs.nodes]_vars

\* A load that raised for the path "/.." emptied a tree that held "/a".
C32_EmptiedByFailedLoad ==
  /\ last.op = "deserialize"
  /\ last.err = "InvalidPath"
  /\ fs.cacheVersion = 2
  /\ DOMAIN fs.files = {ROOT_PATH}

(***************************************************************************)
(* C33: every chat request the ChatProvider sends carries as its files a   *)
(* snapshot equal to serialize() of the VirtualFileSystem at the time the  *)
(* request is submitted, so the changes of earlier tool calls and editor   *)
(* edits are in the next request.                                          *)
(***************************************************************************)
C33_RequestCarriesSnapshot ==
  last.op = "handleSubmit" => last.ret.files = serialize(fs).ret

\* A request sent after a change of the tree carried the snapshot of the
\* first render, without the file "/a" of the tree.
C33_StaleSnapshotSent ==
  /\ last.op = "handleSubmit"
  /\ refreshTrigger > 0
  /\ <<"/", "a">> \in DOMAIN fs.files
  /\ DOMAIN last.ret.files = {ROOT_PATH}

(***************************************************************************)
(* C34: the chat endpoint enforces the resource bounds before it builds a  *)
(* file system: a request with more than 50 files, more than 100 or no     *)
(* messages, a file content longer than 1 MiB, or a node path longer than  *)
(* 1000 characters or with a disallowed character is answered with status  *)
(* 400; no VirtualFileSystem is deserialized, no model call is started and *)
(* nothing is persisted for it.                                            *)
(***************************************************************************)
OverBounds(body) ==
  \/ Cardinality(DOMAIN body.files) > 50
  \/ Len(body.messages) > 100
  \/ Len(body.messages) = 0
  \/ \E key \in DOMAIN body.files :
       \/ /\ "content" \in DOMAIN body.files[key]
          /\ Size(body.files[key].content) > 1024 * 1024
       \/ Length(body.files[key].path) > 1000
       \/ \E i \in 1..Len(body.files[key].path) :
            body.files[key].path[i] \in IllegalChars

C34_BoundsRejected ==
  [][(last'.op = "POST" /\ OverBounds(last'.ret.body))
       => /\ last'.ret.status = 400
          /\ ~last'.ret.deserialized
          /\ ~last'.ret.streaming
          /\ pending' = None
          /\ projects' = projects]_vars

\* A request with 51 files was answered with 400.
C34_TooManyFilesRejected ==
  /\ last.op = "POST"
  /\ Cardinality(DOMAIN last.ret.body.files) = 51
  /\ last.ret.status = 400
  /\ pending = None

(***************************************************************************)
(* C35: every files mapping the request schema accepts is accepted by      *)
(* deserializeFromNodes without a throw: keys, extensions and contents     *)
(* that pass the validation of the request pass the sanitization and the   *)
(* validation of the VirtualFileSystem, so a schema-valid request never    *)
(* ends in the 500 branch because of its files.                            *)
(***************************************************************************)
C35_ValidFilesLoad ==
  (last.op = "POST" /\ ChatRequestSchema(last.ret.body))
    => /\ last.ret.status # 500
       /\ deserializeFromNodes(NewFS, last.ret.body.files).err = NoErr

\* A request whose files hold the key "/a.exe" passed the schema and was
\* answered with 500.
C35_ValidRequestFailed ==
  /\ last.op = "POST"
  /\ <<"/", "a", ".", "e", "x", "e">> \in DOMAIN last.ret.body.files
  /\ ChatRequestSchema(last.ret.body)
  /\ last.ret.status = 500

(***************************************************************************)
(* C36: when a chat response finishes, project data is written only if the *)
(* request has a non-empty projectId and a valid session exists, and only  *)
(* to the project with that id owned by the session's userId; with no      *)
(* projectId or no session nothing is persisted, and a failure of the      *)
(* persistence never fails the response.                                   *)
(***************************************************************************)
\* The rows that differ between two tables.
Written(before, after) ==
  {id \in DOMAIN before \cup DOMAIN after :
     \/ id \notin DOMAIN before
     \/ id \notin DOMAIN after
     \/ before[id] # after[id]}

C36_SavedForOwnerOnly ==
  [][last'.op = "onFinish"
       => /\ last'.err = NoErr
          /\ \A id \in Written(projects, projects') :
               /\ Truthy(pending[1].projectId)
               /\ ~NoSessionIn(pending[1].cookie)
               /\ id = pending[1].projectId[1]
               /\ id \in DOMAIN projects
               /\ id \in DOMAIN projects'
               /\ projects[id].userId = pending[1].cookie[1].userId[1]
               /\ projects'[id].userId = projects[id].userId
          /\ (~Truthy(pending[1].projectId) \/ NoSessionIn(pending[1].cookie))
               => projects' = projects]_vars

\* The response of user "u" for project "uuid-1" finished and was saved;
\* the project of user "v" is as it was.
C36_SavedOwnProject ==
  /\ last.op = "onFinish"
  /\ last.err = NoErr
  /\ last.ret.open.projectId = Some(<<"uuid-1">>)
  /\ projects[<<"uuid-1">>].messages # <<>>
  /\ projects[<<"uuid-2">>] = InitialProjects[<<"uuid-2">>]

(***************************************************************************)
(* C37: in the FileSystemContext, after any sequence of deleteFile,        *)
(* renameFile and handleToolCall (rename / delete) calls, selectedFile is  *)
(* null or the path of a node that exists: deleting the selected file or a *)
(* directory that holds it clears the selection, renaming it or a          *)
(* directory that holds it moves the selection to the new path, for every  *)
(* spelling of the path argument that the VirtualFileSystem accepts.       *)
(***************************************************************************)
Selectable(s, selected) == selected = None \/ selected[1] \in DOMAIN s.files

C37_SelectionExists ==
  [][(/\ last'.op \in {"context.deleteFile", "renameFile", "handleToolCall"}
      /\ Selectable(fs, selectedFile))
       => Selectable(fs', selectedFile')]_vars

\* deleteFile("/a/") deleted the selected file "/a" and left it selected.
C37_DeletedStillSelected ==
  /\ last.op = "context.deleteFile"
  /\ last.path = <<"/", "a", "/">>
  /\ last.err = NoErr
  /\ last.ret = TRUE
  /\ selectedFile = Some(<<"/", "a">>)
  /\ <<"/", "a">> \notin DOMAIN fs.files

(***************************************************************************)
(* C38: whenever an operation routed through the FileSystemContext         *)
(* (createFile, updateFile, deleteFile, renameFile, handleToolCall)        *)
(* changes the tree, refreshTrigger is incremented, and it is not          *)
(* incremented when the tree is unchanged; reset sets refreshTrigger to 0  *)
(* and selectedFile to null.                                               *)
(***************************************************************************)
\* The tree of s: the index and the nodes, without the snapshot cache.
TreeOf(s) == [files |-> s.files, nodes |-> s.nodes]

C38_RefreshedIffChanged ==
  [][/\ last'.op \in {"context.createFile", "context.updateFile",
                      "context.deleteFile", "renameFile", "handleToolCall"}
          => refreshTrigger'
               = IF TreeOf(fs') # TreeOf(fs) THEN refreshTrigger + 1
                 ELSE refreshTrigger
     /\ last'.op = "context.reset"
          => (refreshTrigger' = 0 /\ selectedFile' = None)]_vars

\* The create command for "/d/a.exe" made the directory "/d" and threw:
\* the tree holds "/d" and nothing was ever refreshed.
C38_ChangedWithoutRefresh ==
  /\ last.op = "handleToolCall"
  /\ last.path = <<"/", "d", "/", "a", ".", "e", "x", "e">>
  /\ last.err = "FileType"
  /\ DOMAIN fs.files = {ROOT_PATH, <<"/", "d">>}
  /\ refreshTrigger = 0

====
